---- MODULE Spec2Model ----
(***************************************************************************)
(* The HollyMarket gateway: the per-request middleware pipeline of the     *)
(* Express application (CORS, routing, authentication gate, request        *)
(* validator, controller, upstream client, response formatter, terminal    *)
(* error handler).  One request is followed through the pipeline; the      *)
(* points where the code awaits (the auth provider, an upstream HTTP call) *)
(* are separate steps whose outcome the environment chooses.               *)
(*                                                                         *)
(* Spec follows one request through the pipeline; Live adds that every     *)
(* stage runs and every awaited call settles.  ServerSpec follows the      *)
(* process: the configuration is parsed, the server listens, connections   *)
(* are served concurrently, and a termination signal starts the graceful   *)
(* shutdown; ServerLive adds the scheduling of the shutdown callbacks.     *)
(***************************************************************************)
EXTENDS Integers, Sequences, FiniteSets, TLC

(***************************************************************************)
(* Bounds of the model and program constants.                              *)
(***************************************************************************)
\* longest OTP token drawn for POST /auth/verify
MaxTokLen == 7
\* z.string().min(6, ...) of schemas.verifyOtp
MinTokenLen == 6
\* limit default of getEvents and getMarkets, and of getEventsByTag
DefaultLimit == 50
DefaultTagLimit == 200

None == "#none"
Absent == "#absent"
\* a JSON value that is not a string (a number, an array, a repeated query key)
NotString == "#notstring"

(***************************************************************************)
(* The route tables, in registration order.                                *)
(***************************************************************************)
ParamSegs == {":slug", ":id", ":tokenId", ":tagId", ":address", ":orderId"}

R(method, pattern, auth, schema, handler) ==
  [method |-> method, pattern |-> pattern, auth |-> auth, schema |-> schema,
   handler |-> handler]

authRoutes ==
  << R("POST", <<"auth", "signin">>, "none", "signInWithOtp", "signInWithOtp"),
     R("POST", <<"auth", "verify">>, "none", "verifyOtp", "verifyOtp"),
     R("GET", <<"auth", "me">>, "required", "none", "getCurrentUser"),
     R("POST", <<"auth", "signout">>, "required", "none", "signOut") >>

marketsRoutes ==
  << R("GET", <<"markets", "tags">>, "optional", "none", "getTags"),
     R("GET", <<"markets", "events">>, "optional", "none", "getEvents"),
     R("GET", <<"markets", "events", "tag", ":tagId">>, "optional", "none", "getEventsByTag"),
     R("GET", <<"markets", "events", ":slug">>, "optional", "none", "getEventBySlug"),
     R("GET", <<"markets">>, "optional", "none", "getMarkets"),
     R("GET", <<"markets", "featured">>, "optional", "none", "getFeaturedMarkets"),
     R("GET", <<"markets", "trending">>, "optional", "none", "getTrendingMarkets"),
     R("GET", <<"markets", "search">>, "optional", "none", "searchMarkets"),
     R("GET", <<"markets", "slug", ":slug">>, "optional", "none", "getMarketBySlug"),
     R("GET", <<"markets", ":id">>, "optional", "none", "getMarketById") >>

tradingRoutes ==
  << R("GET", <<"trading", "orderbook", ":tokenId">>, "optional", "none", "getOrderbook"),
     R("GET", <<"trading", "price", ":tokenId">>, "optional", "none", "getMarketPrice"),
     R("GET", <<"trading", "midpoint", ":tokenId">>, "optional", "none", "getMidpointPrice"),
     R("GET", <<"trading", "spread", ":tokenId">>, "optional", "none", "getSpread"),
     R("GET", <<"trading", "trades">>, "optional", "none", "getTrades"),
     R("GET", <<"trading", "trades", ":tokenId">>, "optional", "none", "getRecentTrades"),
     R("GET", <<"trading", "tick-size", ":tokenId">>, "optional", "none", "getTickSize"),
     R("GET", <<"trading", "min-order-size", ":tokenId">>, "optional", "none", "getMinOrderSize"),
     R("GET", <<"trading", "orders", ":address">>, "required", "none", "getUserOrders"),
     R("GET", <<"trading", "order", ":orderId">>, "required", "none", "getOrderById"),
     R("POST", <<"trading", "order">>, "required", "none", "createOrder"),
     R("DELETE", <<"trading", "order">>, "required", "none", "cancelOrder"),
     R("DELETE", <<"trading", "orders">>, "required", "none", "cancelAllOrders") >>

commentsRoutes ==
  << R("GET", <<"comments">>, "optional", "getComments", "getComments") >>

walletRoutes ==
  << R("POST", <<"polymarket", "sign">>, "optional", "signRequest", "sign"),
     R("GET", <<"polymarket", "builder-info">>, "optional", "none", "getBuilderInfo") >>

healthRoute ==
  << R("GET", <<"health">>, "none", "none", "health") >>

\* routes/index.ts: router.use('/auth'), '/markets', '/trading', '/comments',
\* then the wallet router, then router.get('/health')
routes ==
  authRoutes \o marketsRoutes \o tradingRoutes \o commentsRoutes \o walletRoutes
    \o healthRoute

SegMatches(pat, seg) == pat \in ParamSegs \/ pat = seg

\* router matching that does not compare the HTTP method
RouteMatches_IgnoresMethod(r, method, path) ==
  /\ Len(r.pattern) = Len(path)
  /\ \A i \in 1..Len(path) : SegMatches(r.pattern[i], path[i])

RouteMatches(r, method, path) ==
  /\ r.method = method
  /\ Len(r.pattern) = Len(path)
  /\ \A i \in 1..Len(path) : SegMatches(r.pattern[i], path[i])

\* a router that lets the last registered matching layer win
MatchRoute_LastRegistered(method, path) ==
  LET hits == {i \in 1..Len(routes) : RouteMatches(routes[i], method, path)}
  IN IF hits = {} THEN 0
     ELSE CHOOSE i \in hits : \A j \in hits : i >= j

\* Express dispatches to the first registered layer that matches; 0 = none.
MatchRoute(method, path) ==
  LET hits == {i \in 1..Len(routes) : RouteMatches(routes[i], method, path)}
  IN IF hits = {} THEN 0
     ELSE CHOOSE i \in hits : \A j \in hits : i <= j

(***************************************************************************)
(* JavaScript values that the code passes around untyped.                  *)
(***************************************************************************)
Num(n) == [t |-> "num", n |-> n, s |-> ""]
Str(s) == [t |-> "str", n |-> 0, s |-> s]
Undef == [t |-> "undef", n |-> 0, s |-> ""]
\* true, false and NaN
Bool(b) == [t |-> "bool", n |-> IF b THEN 1 ELSE 0, s |-> ""]
NaN == [t |-> "nan", n |-> 0, s |-> ""]

\* JavaScript truthiness of such a value
Truthy(v) ==
  \/ v.t = "num" /\ v.n # 0
  \/ v.t = "str" /\ v.s # ""

(***************************************************************************)
(* The error classes of types/index.ts.                                    *)
(***************************************************************************)
NoDetails == [present |-> FALSE, list |-> << >>]
Details(list) == [present |-> TRUE, list |-> list]

\* new ApiError(statusCode, message, code?, details?)
ApiError(statusCode, message, code, details) ==
  [isApiError |-> TRUE, name |-> "ApiError", statusCode |-> statusCode,
   message |-> message, code |-> code, details |-> details]

ValidationError(message) ==
  [ApiError(Num(400), Str(message), Str("VALIDATION_ERROR"), NoDetails)
     EXCEPT !.name = "ValidationError"]

AuthenticationError(message) ==
  [ApiError(Num(401), Str(message), Str("AUTHENTICATION_ERROR"), NoDetails)
     EXCEPT !.name = "AuthenticationError"]

\* any thrown value that is not an ApiError (Error, TypeError, ...)
PlainError(message) ==
  [isApiError |-> FALSE, name |-> "Error", statusCode |-> Undef,
   message |-> Str(message), code |-> Undef, details |-> NoDetails]

NoError == [isApiError |-> FALSE, name |-> None, statusCode |-> Undef,
            message |-> Undef, code |-> Undef, details |-> NoDetails]

(***************************************************************************)
(* Request inputs.                                                         *)
(***************************************************************************)
\* An Authorization header split where authHeader.substring(7) splits it: its
\* first seven characters and the rest.
Hdr(prefix, rest) == [present |-> TRUE, prefix |-> prefix, rest |-> rest]
NoHeader == [present |-> FALSE, prefix |-> "", rest |-> ""]

Headers ==
  { NoHeader,
    Hdr("Basic d", "Xhw"),
    Hdr("Bearer ", ""),
    Hdr("Bearer ", "tok1") }

\* authHeader.startsWith('Bearer ')
startsWithBearer(h) == h.prefix = "Bearer "
\* authHeader.substring(7)
substring7(h) == h.rest

Tok(t, len) == [t |-> t, len |-> len]
Tokens == {Tok("undef", 0), Tok("num", 0)} \cup {Tok("str", n) : n \in 0..MaxTokLen}

DefArgs ==
  [email |-> Absent, token |-> Tok("undef", 0),
   limit |-> Absent, offset |-> Absent, ascending |-> Absent, ptype |-> Absent,
   depth |-> Absent, q |-> Absent,
   active |-> Absent, closed |-> Absent, archived |-> Absent,
   smethod |-> Absent, spath |-> Absent, sbody |-> Absent,
   order |-> {}]

Emails == {Absent, NotString, "not-an-email", "a@b.com"}
\* the sample strings that z.string().email() accepts
ZodEmails == {"a@b.com"}

\* parseInt(s, 10) on the sample query strings
ParseInt(s) ==
  CASE s = "0" -> [nan |-> FALSE, n |-> 0]
    [] s = "5" -> [nan |-> FALSE, n |-> 5]
    [] s = "-1" -> [nan |-> FALSE, n |-> 0 - 1]
    [] s = "5abc" -> [nan |-> FALSE, n |-> 5]
    [] OTHER -> [nan |-> TRUE, n |-> 0]

(***************************************************************************)
(* The request validator's schemas (validation.middleware.ts).             *)
(***************************************************************************)
Issue(path, message) == [path |-> path, message |-> message]

\* z.string()
stringIssues(path, v) ==
  IF v = Absent THEN << Issue(path, "Required") >>
  ELSE IF v = NotString THEN << Issue(path, "Expected string, received number") >>
  ELSE << >>

\* z.string().email('Invalid email address')
emailIssues(path, v) ==
  IF v \in {Absent, NotString} THEN stringIssues(path, v)
  ELSE IF v \notin ZodEmails THEN << Issue(path, "Invalid email address") >>
  ELSE << >>

\* the token check with the bound one too low
tokenIssues_OffByOne(path, tok) ==
  IF tok.t = "undef" THEN << Issue(path, "Required") >>
  ELSE IF tok.t # "str" THEN << Issue(path, "Expected string, received number") >>
  ELSE IF tok.len < MinTokenLen - 1
       THEN << Issue(path, "Token must be at least 6 characters") >>
  ELSE << >>

\* z.string().min(6, 'Token must be at least 6 characters')
tokenIssues(path, tok) ==
  IF tok.t = "undef" THEN << Issue(path, "Required") >>
  ELSE IF tok.t # "str" THEN << Issue(path, "Expected string, received number") >>
  ELSE IF tok.len < MinTokenLen
       THEN << Issue(path, "Token must be at least 6 characters") >>
  ELSE << >>

\* z.string().optional().transform(val => val ? parseInt(val, 10) : undefined)
\*   .refine(val => val === undefined || val >= 0, {message})
nonNegIssues(path, v, message) ==
  IF v = Absent THEN << >>
  ELSE IF v = NotString THEN << Issue(path, "Expected string, received array") >>
  ELSE IF v = "" THEN << >>
  ELSE IF ~ParseInt(v).nan /\ ParseInt(v).n >= 0 THEN << >>
  ELSE << Issue(path, message) >>

\* z.enum([...]).optional()
enumIssues(path, v, allowed) ==
  IF v = Absent \/ v \in allowed THEN << >>
  ELSE << Issue(path, "Invalid enum value") >>

\* z.string().optional()
optStringIssues(path, v) ==
  IF v = NotString THEN << Issue(path, "Expected string, received number") >>
  ELSE << >>

signInWithOtpSchema(a) == emailIssues("body.email", a.email)

verifyOtpSchema(a) ==
  emailIssues("body.email", a.email) \o tokenIssues("body.token", a.token)

getCommentsSchema(a) ==
  nonNegIssues("query.limit", a.limit, "Limit must be >= 0")
    \o nonNegIssues("query.offset", a.offset, "Offset must be >= 0")
    \o enumIssues("query.ascending", a.ascending, {"true", "false"})
    \o enumIssues("query.parent_entity_type", a.ptype, {"Event", "Series", "market"})

\* the schema bound to POST /polymarket/sign: {method, path, body?}
signRequestSchema(a) ==
  stringIssues("body.method", a.smethod)
    \o stringIssues("body.path", a.spath)
    \o optStringIssues("body.body", a.sbody)

\* schema.parseAsync({body, query, params}): the issues of the ZodError, <<>>
\* when the input parses
schemaIssues(schema, a) ==
  CASE schema = "signInWithOtp" -> signInWithOtpSchema(a)
    [] schema = "verifyOtp" -> verifyOtpSchema(a)
    [] schema = "getComments" -> getCommentsSchema(a)
    [] schema = "signRequest" -> signRequestSchema(a)
    [] OTHER -> << >>

(***************************************************************************)
(* Responses.                                                              *)
(***************************************************************************)
\* What the caller receives: the HTTP status and the fields of the JSON
\* body (json = FALSE when the body is not the gateway's JSON at all).
Response(by, status, success, hasData, hasError, message, code, details, meta, stack) ==
  [by |-> by, status |-> status, json |-> TRUE, success |-> success,
   hasData |-> hasData, hasError |-> hasError, message |-> message,
   code |-> code, details |-> details, meta |-> meta, stack |-> stack]

NoResponse ==
  [by |-> None, status |-> 0, json |-> FALSE, success |-> FALSE,
   hasData |-> FALSE, hasError |-> FALSE, message |-> Undef, code |-> Undef,
   details |-> NoDetails, meta |-> FALSE, stack |-> FALSE]

\* ResponseBuilder.success(res, data): {success:true, data, meta:{timestamp}}
ResponseBuilderSuccess ==
  Response("handler", 200, TRUE, TRUE, FALSE, Undef, Undef, NoDetails, TRUE, FALSE)

\* ResponseBuilder.created(res, data): as success, with status 201
ResponseBuilderCreated ==
  [ResponseBuilderSuccess EXCEPT !.status = 201]

\* ResponseBuilder.error(res, message, statusCode, code, details?)
ResponseBuilderError(message, statusCode, code) ==
  Response("handler", statusCode, FALSE, FALSE, TRUE, Str(message), Str(code),
           NoDetails, TRUE, FALSE)

\* the framework's last-resort answer when a handler cannot write its own
FinalHandlerResponse ==
  [NoResponse EXCEPT !.by = "finalhandler", !.status = 500]

\* a status Node accepts in writeHead
ValidStatus(v) == v.t = "num" /\ v.n >= 100 /\ v.n <= 999

(***************************************************************************)
(* config/env.ts                                                           *)
(***************************************************************************)
NodeEnvs == {"development", "production", "test"}
isDevelopment(e) == e = "development"
isProduction(e) == e = "production"
\* ALLOWED_ORIGINS default, split on ','
allowedOrigins == {"http://localhost:3000"}
Origins == {Absent, "http://localhost:3000", "http://evil.example"}

(***************************************************************************)
(* middleware/error.middleware.ts                                          *)
(***************************************************************************)
\* errorHandler showing the real message whenever not in production
errorHandler_NonProduction(error, e) ==
  IF error.isApiError
  THEN IF ValidStatus(error.statusCode)
       THEN Response("errorHandler", error.statusCode.n, FALSE, FALSE, TRUE,
                     error.message, error.code, error.details, TRUE, FALSE)
       ELSE FinalHandlerResponse
  ELSE Response("errorHandler", 500, FALSE, FALSE, TRUE,
                IF ~isProduction(e) THEN error.message
                ELSE Str("Internal server error"),
                Str("INTERNAL_SERVER_ERROR"), NoDetails, TRUE, isDevelopment(e))

\* errorHandler putting error.stack in every 500 body
errorHandler_AlwaysStack(error, e) ==
  IF error.isApiError
  THEN IF ValidStatus(error.statusCode)
       THEN Response("errorHandler", error.statusCode.n, FALSE, FALSE, TRUE,
                     error.message, error.code, error.details, TRUE, FALSE)
       ELSE FinalHandlerResponse
  ELSE Response("errorHandler", 500, FALSE, FALSE, TRUE,
                IF isDevelopment(e) THEN error.message
                ELSE Str("Internal server error"),
                Str("INTERNAL_SERVER_ERROR"), NoDetails, TRUE, TRUE)

\* errorHandler(error, req, res, next), headers not yet sent
errorHandler(error, e) ==
  IF error.isApiError
  THEN IF ValidStatus(error.statusCode)
       THEN Response("errorHandler", error.statusCode.n, FALSE, FALSE, TRUE,
                     error.message, error.code, error.details, TRUE, FALSE)
       ELSE FinalHandlerResponse
  ELSE Response("errorHandler", 500, FALSE, FALSE, TRUE,
                IF isDevelopment(e) THEN error.message
                ELSE Str("Internal server error"),
                Str("INTERNAL_SERVER_ERROR"), NoDetails, TRUE, isDevelopment(e))

\* notFoundHandler(req, res)
notFoundHandler ==
  Response("notFoundHandler", 404, FALSE, FALSE, TRUE, Str("Route not found"),
           Str("NOT_FOUND"), NoDetails, TRUE, FALSE)

(***************************************************************************)
(* middleware/auth.middleware.ts and services/auth.service.ts              *)
(***************************************************************************)
ProviderOutcomes == {"ok", "error", "incomplete", "throws"}

\* what supabase.auth.getUser(token) hands back: {data: {user}, error}, or
\* a rejected promise
getUser(token, outcome) ==
  [user |-> IF outcome = "ok" THEN token ELSE None,
   error |-> outcome = "error",
   throws |-> outcome = "throws"]

\* getUserFromToken testing `error` alone, not `!user`
getUserFromToken_IgnoresMissingUser(token, outcome) ==
  LET r == getUser(token, outcome)
  IN IF r.throws \/ r.error
     THEN [ok |-> FALSE, user |-> None, error |-> AuthenticationError("Invalid token")]
     ELSE [ok |-> TRUE, user |-> r.user, error |-> NoError]

\* AuthService.getUserFromToken(token), given what the provider did: the
\* user, or the AuthenticationError thrown
getUserFromToken(token, outcome) ==
  LET r == getUser(token, outcome)
  IN IF r.throws \/ r.error \/ r.user = None
     THEN [ok |-> FALSE, user |-> None, error |-> AuthenticationError("Invalid token")]
     ELSE [ok |-> TRUE, user |-> r.user, error |-> NoError]

\* headerCheck without the `if (!token)` test
headerCheck_NoTokenCheck(h) ==
  IF ~h.present \/ ~startsWithBearer(h) THEN "badHeader" ELSE "resolve"

\* the synchronous head of authenticate and optionalAuth: what the header
\* lets the gate do
headerCheck(h) ==
  IF ~h.present \/ ~startsWithBearer(h) THEN "badHeader"
  ELSE IF substring7(h) = "" THEN "noToken"
  ELSE "resolve"

\* the catch block of authenticate
authenticateCatch(error) ==
  IF error.isApiError /\ error.name = "AuthenticationError"
  THEN [Response("authenticate", error.statusCode.n, FALSE, FALSE, TRUE,
                 error.message, error.code, NoDetails, FALSE, FALSE)
          EXCEPT !.details = NoDetails]
  ELSE Response("authenticate", 401, FALSE, FALSE, TRUE,
                Str("Authentication failed"), Str("AUTHENTICATION_ERROR"),
                NoDetails, FALSE, FALSE)

\* the 400 answer of validate(schema) on a ZodError
validateReject(issues) ==
  Response("validate", 400, FALSE, FALSE, TRUE, Str("Validation failed"),
           Str("VALIDATION_ERROR"), Details(issues), FALSE, FALSE)

(***************************************************************************)
(* The upstream clients.                                                   *)
(***************************************************************************)
\* What an axios call can come back with: a 2xx reply, a reply with a
\* failure status (whose body may or may not carry a message), a timeout
\* (code ECONNABORTED) or no reply at all.
UpStatuses == {400, 401, 404, 429, 500, 503}
Reply(kind, status, hasMsg) == [kind |-> kind, status |-> status, hasMsg |-> hasMsg]
HttpOutcomes ==
  {Reply("ok", 200, FALSE), Reply("timeout", 0, FALSE), Reply("unreachable", 0, FALSE)}
    \cup {Reply("status", st, FALSE) : st \in UpStatuses}
    \cup {Reply("status", 400, TRUE), Reply("status", 503, TRUE)}

NoReply == Reply(None, 0, FALSE)

\* (error.response.data as any)?.message || error.message
upstreamMessage(o) ==
  IF o.hasMsg THEN Str("upstream message") ELSE Str("Request failed")

\* the market-data client's translation without its `case 429`
marketHandleApiError_No429(o) ==
  IF o.kind = "status"
  THEN CASE o.status = 400 -> ApiError(Num(400), upstreamMessage(o), Str("BAD_REQUEST"), NoDetails)
         [] o.status = 404 -> ApiError(Num(404), Str("Resource not found"), Str("NOT_FOUND"), NoDetails)
         [] o.status = 500 -> ApiError(Num(500), Str("Polymarket API server error"),
                                       Str("SERVER_ERROR"), NoDetails)
         [] OTHER -> ApiError(Num(o.status), upstreamMessage(o), Str("POLYMARKET_API_ERROR"), NoDetails)
  ELSE IF o.kind = "timeout"
  THEN ApiError(Num(504), Str("Polymarket API request timeout"), Str("TIMEOUT"), NoDetails)
  ELSE ApiError(Num(503), Str("Polymarket API service unavailable"),
                Str("SERVICE_UNAVAILABLE"), NoDetails)

\* PolymarketApiService.handleApiError (market-data client)
marketHandleApiError(o) ==
  IF o.kind = "status"
  THEN CASE o.status = 400 -> ApiError(Num(400), upstreamMessage(o), Str("BAD_REQUEST"), NoDetails)
         [] o.status = 404 -> ApiError(Num(404), Str("Resource not found"), Str("NOT_FOUND"), NoDetails)
         [] o.status = 429 -> ApiError(Num(429), Str("Polymarket API rate limit exceeded"),
                                       Str("RATE_LIMIT_EXCEEDED"), NoDetails)
         [] o.status = 500 -> ApiError(Num(500), Str("Polymarket API server error"),
                                       Str("SERVER_ERROR"), NoDetails)
         [] OTHER -> ApiError(Num(o.status), upstreamMessage(o), Str("POLYMARKET_API_ERROR"), NoDetails)
  ELSE IF o.kind = "timeout"
  THEN ApiError(Num(504), Str("Polymarket API request timeout"), Str("TIMEOUT"), NoDetails)
  ELSE ApiError(Num(503), Str("Polymarket API service unavailable"),
                Str("SERVICE_UNAVAILABLE"), NoDetails)

\* the trading client's translation without its ECONNABORTED test
clobHandleApiError_NoTimeout(o) ==
  IF o.kind = "status"
  THEN CASE o.status = 400 -> ApiError(Num(400), upstreamMessage(o), Str("BAD_REQUEST"), NoDetails)
         [] o.status = 401 -> ApiError(Num(401), Str("Unauthorized"), Str("UNAUTHORIZED"), NoDetails)
         [] o.status = 404 -> ApiError(Num(404), Str("Resource not found"), Str("NOT_FOUND"), NoDetails)
         [] o.status = 429 -> ApiError(Num(429), Str("Rate limit exceeded"),
                                       Str("RATE_LIMIT_EXCEEDED"), NoDetails)
         [] OTHER -> ApiError(Num(o.status), upstreamMessage(o), Str("CLOB_API_ERROR"), NoDetails)
  ELSE ApiError(Num(503), Str("CLOB service unavailable"), Str("SERVICE_UNAVAILABLE"), NoDetails)

\* PolymarketClobService.handleApiError (trading client)
clobHandleApiError(o) ==
  IF o.kind = "status"
  THEN CASE o.status = 400 -> ApiError(Num(400), upstreamMessage(o), Str("BAD_REQUEST"), NoDetails)
         [] o.status = 401 -> ApiError(Num(401), Str("Unauthorized"), Str("UNAUTHORIZED"), NoDetails)
         [] o.status = 404 -> ApiError(Num(404), Str("Resource not found"), Str("NOT_FOUND"), NoDetails)
         [] o.status = 429 -> ApiError(Num(429), Str("Rate limit exceeded"),
                                       Str("RATE_LIMIT_EXCEEDED"), NoDetails)
         [] OTHER -> ApiError(Num(o.status), upstreamMessage(o), Str("CLOB_API_ERROR"), NoDetails)
  ELSE IF o.kind = "timeout"
  THEN ApiError(Num(504), Str("Request timeout"), Str("TIMEOUT"), NoDetails)
  ELSE ApiError(Num(503), Str("CLOB service unavailable"), Str("SERVICE_UNAVAILABLE"), NoDetails)

\* the response interceptor of CommentsService:
\*   new ApiError(error.response?.data?.message || 'Failed ...',
\*                error.response?.status || 500)
\* the message is passed where ApiError takes statusCode, the status where
\* it takes message
commentsInterceptor(o) ==
  ApiError(IF o.kind = "status" /\ o.hasMsg THEN Str("upstream message")
           ELSE Str("Failed to fetch comments from Polymarket"),
           IF o.kind = "status" THEN Num(o.status) ELSE Num(500),
           Undef, NoDetails)

\* an AuthService whose catch blocks rethrow what the provider call threw
authServiceError_Rethrows(op, outcome) ==
  IF outcome = "throws" THEN PlainError("fetch failed")
  ELSE AuthenticationError(IF op = "signInWithOtp" THEN "provider message"
                           ELSE IF op = "verifyOtp" THEN "Invalid or expired OTP"
                           ELSE "Failed to sign out")

\* the AuthenticationError an AuthService operation throws when the provider
\* call did not succeed
authServiceError(op, outcome) ==
  CASE op = "signInWithOtp" ->
         AuthenticationError(IF outcome = "error" THEN "provider message"
                             ELSE "Failed to send OTP")
    [] op = "verifyOtp" ->
         AuthenticationError(IF outcome = "throws" THEN "Failed to verify OTP"
                             ELSE "Invalid or expired OTP")
    [] OTHER -> AuthenticationError("Failed to sign out")

\* the outcomes a call can have (only verifyOtp reads the provider's data)
OutcomesOf(call) ==
  IF call.client = "auth"
  THEN {Reply(k, 0, FALSE) :
          k \in IF call.op = "verifyOtp" THEN ProviderOutcomes
                ELSE ProviderOutcomes \ {"incomplete"}}
  ELSE HttpOutcomes

\* the error a failed call surfaces to the controller
clientError(call, o) ==
  CASE call.client = "auth" -> authServiceError(call.op, o.kind)
    [] call.client = "market" -> marketHandleApiError(o)
    [] call.client = "clob" -> clobHandleApiError(o)
    [] OTHER -> commentsInterceptor(o)

(***************************************************************************)
(* The controllers.                                                        *)
(***************************************************************************)
Call(client, op) == [client |-> client, op |-> op]
NoCall == Call(None, None)

\* what a controller does up to its first await: issue one client call,
\* answer at once, or throw
PlanCall(c) == [kind |-> "call", call |-> c, res |-> NoResponse, err |-> NoError]
PlanRespond(r) == [kind |-> "respond", call |-> NoCall, res |-> r, err |-> NoError]
PlanThrow(e) == [kind |-> "throw", call |-> NoCall, res |-> NoResponse, err |-> e]
\* a synchronous library call followed by the answer
PlanLocal(c, r) == [kind |-> "local", call |-> c, res |-> r, err |-> NoError]

\* a query or body string as the controller's `x ? ... : ...` sees it
Present(v) == v # Absent /\ v # ""

\* AuthService.isValidEmail: /^[^\s@]+@[^\s@]+\.[^\s@]+$/ on the sample emails
isValidEmail(v) == v \in {"a@b.com"}

\* method.toUpperCase() on the sample methods
toUpperCase(m) == IF m = "get" THEN "GET" ELSE m
validMethods == {"GET", "POST", "DELETE", "PUT", "PATCH"}
\* path.startsWith('/') on the sample paths
startsWithSlash(p) == p \in {"/orderbook"}
\* whether JSON.parse(body) returns, on the sample bodies
parsesAsJson(b) == b \in {"{}"}

SignMethods == {Absent, "GET", "get", "FOO"}
SignPaths == {Absent, "/orderbook", "orderbook"}
SignBodies == {Absent, NotString, "", "{}", "{bad"}

\* BuilderSigningService.validateRequest: the error thrown, NoError if none
validateRequest(a) ==
  IF a.smethod \in {Absent, NotString, ""}
  THEN ApiError(Num(400), Str("Invalid or missing method"), Undef, NoDetails)
  ELSE IF a.spath \in {Absent, NotString, ""} \/ ~startsWithSlash(a.spath)
  THEN ApiError(Num(400), Str("Invalid or missing path. Path must start with /"),
                Undef, NoDetails)
  ELSE IF a.sbody = NotString
  THEN ApiError(Num(400), Str("Body must be a JSON string"), Undef, NoDetails)
  ELSE IF Present(a.sbody) /\ ~parsesAsJson(a.sbody)
  THEN ApiError(Num(400), Str("Body must be valid JSON"), Undef, NoDetails)
  ELSE NoError

\* BuilderSigningService.sign up to the call of buildHmacSignature: the error
\* thrown, NoError if the signature is built
signCheck(a) ==
  IF ~Present(a.smethod) \/ ~Present(a.spath)
  THEN ApiError(Num(400), Str("Missing required fields: method and path"), Undef, NoDetails)
  ELSE IF toUpperCase(a.smethod) \notin validMethods
  THEN ApiError(Num(400), Str("Invalid HTTP method"), Undef, NoDetails)
  ELSE NoError

\* config.polymarket.builder: the builder credentials of the process
builder ==
  [apiKey |-> "builder-key", secret |-> "builder-secret",
   passphrase |-> "builder-pass"]

\* the values Date.now() returns in sign
Timestamps == {1000, 2000}

\* buildHmacSignature of the signing SDK: a string determined by its
\* arguments, from which none of them can be read back
buildHmacSignature(secret, timestamp, method, path, body) ==
  [t |-> "hmac", of |-> << secret, timestamp, method, path, body >>]

\* the arguments sign passes to buildHmacSignature
hmacArgs(a, ts) ==
  [secret |-> builder.secret, timestamp |-> ts, method |-> toUpperCase(a.smethod),
   path |-> a.spath, body |-> IF Present(a.sbody) THEN a.sbody ELSE ""]

\* sign returning a timestamp read after the signature was built
signHeaders_FreshTimestamp(a, ts) ==
  LET h == hmacArgs(a, ts)
  IN [kind |-> "signature",
      POLY_BUILDER_API_KEY |-> Str(builder.apiKey),
      POLY_BUILDER_SIGNATURE |->
        buildHmacSignature(h.secret, h.timestamp, h.method, h.path, h.body),
      POLY_BUILDER_TIMESTAMP |-> Num(ts + 1),
      POLY_BUILDER_PASSPHRASE |-> Str(builder.passphrase)]

\* BuilderSigningService.sign: the SigningResponse it returns
signHeaders(a, ts) ==
  LET h == hmacArgs(a, ts)
  IN [kind |-> "signature",
      POLY_BUILDER_API_KEY |-> Str(builder.apiKey),
      POLY_BUILDER_SIGNATURE |->
        buildHmacSignature(h.secret, h.timestamp, h.method, h.path, h.body),
      POLY_BUILDER_TIMESTAMP |-> Num(ts),
      POLY_BUILDER_PASSPHRASE |-> Str(builder.passphrase)]

\* getBuilderInfo answering with the secret itself
getBuilderInfo_ReturnsSecret ==
  [kind |-> "builderInfo",
   apiKey |-> Str(builder.apiKey),
   hasSecret |-> Str(builder.secret),
   hasPassphrase |-> Bool(builder.passphrase # ""),
   configured |-> Bool(builder.apiKey # "" /\ builder.secret # ""
                         /\ builder.passphrase # "")]

\* BuilderSigningService.getBuilderInfo
getBuilderInfo ==
  [kind |-> "builderInfo",
   apiKey |-> Str(builder.apiKey),
   hasSecret |-> Bool(builder.secret # ""),
   hasPassphrase |-> Bool(builder.passphrase # ""),
   configured |-> Bool(builder.apiKey # "" /\ builder.secret # ""
                         /\ builder.passphrase # "")]

\* the data payload of a response, for the handlers whose payload is modelled
NoData == [kind |-> "none"]
responseData(h, a, ts) ==
  CASE h = "sign" -> signHeaders(a, ts)
    [] h = "getBuilderInfo" -> getBuilderInfo
    [] OTHER -> NoData

\* the tag lists the upstream may hold; response.data of GET /tags is the list
TagLists == { <<"politics", "crypto">>, <<"crypto", "politics">> }

\* a controller that puts the tags in an order of its own
getTags_Reversed(tags) ==
  [kind |-> "tags", count |-> Len(tags),
   tags |-> [k \in 1..Len(tags) |-> tags[Len(tags) + 1 - k]]]

\* MarketsController.getTags: tags = await polymarketApiService.getTags(),
\* which returns response.data; the payload is { count: tags.length, tags }
getTags(tags) == [kind |-> "tags", count |-> Len(tags), tags |-> tags]

\* WalletController.sign
walletSign(a) ==
  IF validateRequest(a) # NoError THEN PlanThrow(validateRequest(a))
  ELSE IF signCheck(a) # NoError THEN PlanThrow(signCheck(a))
  ELSE PlanLocal(Call("signing", "buildHmacSignature"), ResponseBuilderSuccess)

\* AuthController and AuthService up to the provider call
authSignInWithOtp(a) ==
  IF ~Present(a.email) \/ a.email = NotString \/ ~isValidEmail(a.email)
  THEN PlanThrow(ValidationError("Invalid email address"))
  ELSE PlanCall(Call("auth", "signInWithOtp"))

authVerifyOtp(a) ==
  IF ~Present(a.email) \/ a.token.t = "undef" \/ (a.token.t = "str" /\ a.token.len = 0)
  THEN PlanThrow(ValidationError("Email and token are required"))
  ELSE PlanCall(Call("auth", "verifyOtp"))

\* AuthController.getCurrentUser
getCurrentUser(u) ==
  IF u = None
  THEN PlanRespond(ResponseBuilderError("User not found", 404, "USER_NOT_FOUND"))
  ELSE PlanRespond(ResponseBuilderSuccess)

\* AuthController.signOut: token = authHeader?.substring(7)
authSignOut(h) ==
  IF h.present /\ substring7(h) # ""
  THEN PlanCall(Call("auth", "signOut"))
  ELSE PlanRespond(ResponseBuilderSuccess)

\* a parser of limit and offset with no default of its own
intOrDefault_NoDefault(v, dflt) ==
  IF Present(v)
  THEN IF ParseInt(v).nan THEN NaN ELSE Num(ParseInt(v).n)
  ELSE NaN

\* limit ? parseInt(limit as string, 10) : dflt
intOrDefault(v, dflt) ==
  IF Present(v)
  THEN IF ParseInt(v).nan THEN NaN ELSE Num(ParseInt(v).n)
  ELSE Num(dflt)

\* a flag parser that sends false for everything but 'true'
boolFlag_DefaultsFalse(v) ==
  IF v = "true" THEN Bool(TRUE) ELSE Bool(FALSE)

\* active === 'true' ? true : active === 'false' ? false : undefined
boolFlag(v) ==
  IF v = "true" THEN Bool(TRUE)
  ELSE IF v = "false" THEN Bool(FALSE)
  ELSE Undef

\* the params object MarketsController.getEvents, getMarkets and
\* getEventsByTag hand to the market-data client
listParams(a, dflt) ==
  [limit |-> intOrDefault(a.limit, dflt),
   offset |-> intOrDefault(a.offset, 0),
   active |-> boolFlag(a.active),
   closed |-> boolFlag(a.closed),
   archived |-> boolFlag(a.archived)]

\* PolymarketApiService.getEvents, getMarkets, getEventsByTag: the query of
\* the upstream GET; a key that is not set is Undef
\*   if (params?.limit) queryParams.limit = params.limit
\*   if (params?.active !== undefined) queryParams.active = params.active
queryParams(p) ==
  [limit |-> IF Truthy(p.limit) THEN p.limit ELSE Undef,
   offset |-> IF Truthy(p.offset) THEN p.offset ELSE Undef,
   active |-> IF p.active # Undef THEN p.active ELSE Undef,
   closed |-> IF p.closed # Undef THEN p.closed ELSE Undef,
   archived |-> IF p.archived # Undef THEN p.archived ELSE Undef]

NoParams ==
  [limit |-> Undef, offset |-> Undef, active |-> Undef, closed |-> Undef,
   archived |-> Undef]

\* the params object a list controller calls its client operation with
callArgs(h, a) ==
  CASE h \in {"getEvents", "getMarkets"} -> listParams(a, DefaultLimit)
    [] h = "getEventsByTag" -> listParams(a, DefaultTagLimit)
    [] OTHER -> NoParams

\* the JSON objects posted to /trading/order, each the set of its
\* <<key, value>> members: a complete signed order, one without its signature,
\* one with a field the trading API does not know, and the empty object
OrderBodies ==
  { { <<"maker", "0xabc">>, <<"tokenId", "t1">>, <<"signature", "0xsig">> },
    { <<"maker", "0xabc">>, <<"tokenId", "t1">> },
    { <<"maker", "0xabc">>, <<"signature", "not-hex">>, <<"extra", "1">> },
    {} }

\* a gateway that forwards only the fields of an order it knows
createOrder_KnownFieldsOnly(order) ==
  {kv \in order : kv[1] \in {"maker", "tokenId", "signature"}}

\* TradingController.createOrder: signedOrder = req.body, handed to
\* PolymarketClobService.createOrder, which posts it: client.post('/order', order)
createOrder(order) == order

\* the query, or the posted body, a controller's client call carries upstream
callParams(h, a) ==
  CASE h \in {"getEvents", "getMarkets"} -> queryParams(listParams(a, DefaultLimit))
    [] h = "getEventsByTag" -> queryParams(listParams(a, DefaultTagLimit))
    [] h = "createOrder" -> createOrder(a.order)
    [] OTHER -> NoParams

\* MarketsController.searchMarkets
searchMarkets(a) ==
  IF ~Present(a.q)
  THEN PlanRespond(ResponseBuilderError("Search query is required", 400, "VALIDATION_ERROR"))
  ELSE PlanCall(Call("market", "searchMarkets"))

\* getOrderbook that never looks at depth
getOrderbook_IgnoresDepth(a) == PlanCall(Call("clob", "getOrderbook"))

\* TradingController.getOrderbook
getOrderbook(a) ==
  IF Present(a.depth)
  THEN PlanCall(Call("clob", "getOrderbookDepth"))
  ELSE PlanCall(Call("clob", "getOrderbook"))

\* the health route of routes/index.ts: res.json({success: true, data})
healthResponse ==
  [ResponseBuilderSuccess EXCEPT !.meta = FALSE]

MarketHandlers ==
  {"getTags", "getEvents", "getEventsByTag", "getEventBySlug", "getMarkets",
   "getFeaturedMarkets", "getTrendingMarkets", "getMarketBySlug", "getMarketById"}

\* the controller method a route runs, up to its first await
controller(h, rq, u) ==
  CASE h = "signInWithOtp" -> authSignInWithOtp(rq.args)
    [] h = "verifyOtp" -> authVerifyOtp(rq.args)
    [] h = "getCurrentUser" -> getCurrentUser(u)
    [] h = "signOut" -> authSignOut(rq.authorization)
    [] h = "searchMarkets" -> searchMarkets(rq.args)
    [] h = "getOrderbook" -> getOrderbook(rq.args)
    [] h = "sign" -> walletSign(rq.args)
    [] h = "getBuilderInfo" -> PlanRespond(ResponseBuilderSuccess)
    [] h = "health" -> PlanRespond(healthResponse)
    [] h = "getComments" -> PlanCall(Call("comments", "getComments"))
    [] h \in MarketHandlers -> PlanCall(Call("market", h))
    [] OTHER -> PlanCall(Call("clob", h))

\* the answer of a controller whose awaited call succeeded
controllerSuccess(h) ==
  IF h = "createOrder" THEN ResponseBuilderCreated ELSE ResponseBuilderSuccess

(***************************************************************************)
(* The requests drawn.                                                     *)
(***************************************************************************)
Sample(method, path, args) == [method |-> method, path |-> path, args |-> args]

NoArgRequests ==
  { Sample("GET", <<"auth", "me">>, DefArgs),
    Sample("POST", <<"auth", "signout">>, DefArgs),
    Sample("GET", <<"markets", "tags">>, DefArgs),
    Sample("GET", <<"markets", "events">>, DefArgs),
    Sample("GET", <<"markets", "events", "tag", "t1">>, DefArgs),
    Sample("GET", <<"markets", "events", "s1">>, DefArgs),
    Sample("GET", <<"markets">>, DefArgs),
    Sample("GET", <<"markets", "featured">>, DefArgs),
    Sample("GET", <<"markets", "trending">>, DefArgs),
    Sample("GET", <<"markets", "slug", "s1">>, DefArgs),
    Sample("GET", <<"markets", "m1">>, DefArgs),
    Sample("GET", <<"trading", "price", "t1">>, DefArgs),
    Sample("GET", <<"trading", "midpoint", "t1">>, DefArgs),
    Sample("GET", <<"trading", "spread", "t1">>, DefArgs),
    Sample("GET", <<"trading", "trades">>, DefArgs),
    Sample("GET", <<"trading", "trades", "t1">>, DefArgs),
    Sample("GET", <<"trading", "tick-size", "t1">>, DefArgs),
    Sample("GET", <<"trading", "min-order-size", "t1">>, DefArgs),
    Sample("GET", <<"trading", "orders", "0xabc">>, DefArgs),
    Sample("GET", <<"trading", "order", "o1">>, DefArgs),
    Sample("POST", <<"trading", "order">>, DefArgs),
    Sample("DELETE", <<"trading", "order">>, DefArgs),
    Sample("DELETE", <<"trading", "orders">>, DefArgs),
    Sample("GET", <<"polymarket", "builder-info">>, DefArgs),
    Sample("GET", <<"health">>, DefArgs),
    Sample("GET", <<"unknown", "route">>, DefArgs),
    Sample("POST", <<"markets", "tags">>, DefArgs) }

\* the (active, closed, archived) query values drawn
FlagSamples ==
  { <<Absent, Absent, Absent>>, <<"true", "false", "1">>, <<"false", "true", "">>,
    <<"TRUE", Absent, "true">>, <<Absent, "yes", "false">> }

ArgRequests ==
  {Sample("POST", <<"auth", "signin">>, [DefArgs EXCEPT !.email = e]) : e \in Emails}
    \cup {Sample("POST", <<"auth", "verify">>, [DefArgs EXCEPT !.email = e, !.token = t]) :
            e \in Emails, t \in Tokens}
    \cup {Sample("GET", <<"markets", "search">>, [DefArgs EXCEPT !.q = q]) :
            q \in {Absent, "", "btc"}}
    \cup {Sample("GET", <<"trading", "orderbook", "t1">>, [DefArgs EXCEPT !.depth = d]) :
            d \in {Absent, "5"}}
    \cup {Sample("GET", <<"comments">>,
                 [DefArgs EXCEPT !.limit = l, !.offset = o, !.ascending = asc, !.ptype = pt]) :
            l \in {Absent, NotString, "5", "-1", "abc"}, o \in {Absent, "-1"},
            asc \in {Absent, "yes"}, pt \in {Absent, "bogus"}}
    \cup {Sample("GET", <<"markets", "events">>, [DefArgs EXCEPT !.limit = l]) :
            l \in {"0", "5", "abc"}}
    \cup {Sample("GET", p, [DefArgs EXCEPT !.active = f[1], !.closed = f[2],
                                           !.archived = f[3]]) :
            p \in {<<"markets", "events">>, <<"markets">>,
                   <<"markets", "events", "tag", "t1">>},
            f \in FlagSamples}
    \cup {Sample("POST", <<"trading", "order">>, [DefArgs EXCEPT !.order = b]) :
            b \in OrderBodies}
    \cup {Sample("POST", <<"polymarket", "sign">>,
                 [DefArgs EXCEPT !.smethod = m, !.spath = p, !.sbody = b]) :
            m \in SignMethods, p \in SignPaths, b \in SignBodies}

Requests == NoArgRequests \cup ArgRequests

NoRequest ==
  [method |-> None, path |-> << >>, authorization |-> NoHeader, args |-> DefArgs]

(***************************************************************************)
(* config/env.ts: the required configuration inputs.                       *)
(***************************************************************************)
RequiredKeys == << "SUPABASE_URL", "SUPABASE_ANON_KEY", "SUPABASE_SERVICE_ROLE_KEY" >>

\* the values of process.env drawn for the URL and for the two keys
UrlValues == {Absent, "not-a-url", "https://project.supabase.co"}
KeyValues == {Absent, "", "key"}

Environs ==
  [SUPABASE_URL : UrlValues, SUPABASE_ANON_KEY : KeyValues,
   SUPABASE_SERVICE_ROLE_KEY : KeyValues]

ValidEnviron ==
  [SUPABASE_URL |-> "https://project.supabase.co", SUPABASE_ANON_KEY |-> "key",
   SUPABASE_SERVICE_ROLE_KEY |-> "key"]

\* a URL check that accepts every string
urlOk_AnyString(v) == v # Absent

\* z.string().url() on the sample values
urlOk(v) == v \in {"https://project.supabase.co"}

\* z.string().min(1)
minOneOk(v) == v # Absent /\ v # ""

\* the field of envSchema bound to key k accepts v
keyOk(k, v) == IF k = "SUPABASE_URL" THEN urlOk(v) ELSE minOneOk(v)

\* envSchema.parse(process.env): error.errors.map(e => e.path.join('.')), the
\* offending keys in schema order; << >> when the environment parses
envIssues(e) == SelectSeq(RequiredKeys, LAMBDA k : ~keyOk(k, e[k]))

(***************************************************************************)
(* server.ts: the connections of the HTTP server.                          *)
(***************************************************************************)
\* connections open at the same time
MaxConns == 2
\* the step of the clock that measures the shutdown grace period
TickMs == 5000
\* setTimeout(..., 10000) of gracefulShutdown
GraceMs == 10000

Slots == 1..MaxConns

\* a connection and the request it serves: req, res and what the middleware
\* hung on them
Idle ==
  [pc |-> "idle", req |-> NoRequest, route |-> 0, user |-> None, seen |-> None,
   res |-> NoResponse, gateOutcome |-> None, call |-> NoCall, reply |-> NoReply,
   data |-> NoData]

\* the requests and headers drawn for concurrent service
ServerRequests ==
  { Sample("GET", <<"auth", "me">>, DefArgs),
    Sample("GET", <<"markets", "tags">>, DefArgs),
    Sample("GET", <<"markets", "trending">>, DefArgs) }
ServerHeaders == { NoHeader, Hdr("Bearer ", "tok1"), Hdr("Bearer ", "tok2") }
\* the request and header pairs a connection is accepted with
ServerInputs ==
  { <<Sample("GET", <<"auth", "me">>, DefArgs), h>> : h \in ServerHeaders }
    \cup { <<Sample("GET", <<"markets", "tags">>, DefArgs), NoHeader>>,
           <<Sample("GET", <<"markets", "trending">>, DefArgs), Hdr("Bearer ", "tok2")>> }
ServerProviderOutcomes == {"ok", "error"}
ServerClientOutcomes(call) == {o \in OutcomesOf(call) : o.kind \in {"ok", "timeout"}}

\* a route stack without its validate(schema) middleware
afterGate_SkipsValidator(r) == "handler"

\* the stage a request enters after its gate let it through
afterGate(r) == IF r.schema # "none" THEN "validate" ELSE "handler"

\* the first middleware of a route's stack
firstStage(r) ==
  CASE r.auth = "required" -> "authenticate"
    [] r.auth = "optional" -> "optionalAuth"
    [] OTHER -> afterGate(r)

\* the identity kept in one place for all requests in service
setUser_Shared(cs, i, u) == [j \in DOMAIN cs |-> [cs[j] EXCEPT !.user = u]]

\* req.user = user: the identity is attached to the request's own object
setUser(cs, i, u) == [cs EXCEPT ![i].user = u]

\* the run of a request from its controller to the controller's first await
runHandler(c, e) ==
  LET plan == controller(routes[c.route].handler, c.req, c.user)
      ran == [c EXCEPT !.seen = c.user]
  IN CASE plan.kind = "call" -> [ran EXCEPT !.pc = "upstreamWait", !.call = plan.call]
       [] plan.kind \in {"local", "respond"} -> [ran EXCEPT !.pc = "done", !.res = plan.res]
       [] OTHER -> [ran EXCEPT !.pc = "done", !.res = errorHandler(plan.err, e)]

\* ... from validate(schema)
runValidate(c, e) ==
  LET issues == schemaIssues(routes[c.route].schema, c.req.args)
  IN IF issues = << >> THEN runHandler(c, e)
     ELSE [c EXCEPT !.pc = "done", !.res = validateReject(issues)]

\* ... from the gate's next()
runAfterGate(c, e) ==
  IF afterGate(routes[c.route]) = "validate" THEN runValidate(c, e)
  ELSE runHandler(c, e)

\* ... from the route's first middleware
runGate(c, e) ==
  LET r == routes[c.route]
      check == headerCheck(c.req.authorization)
  IN IF r.auth = "none" THEN runAfterGate(c, e)
     ELSE IF check = "resolve" THEN [c EXCEPT !.pc = "gateWait"]
     ELSE IF r.auth = "optional" THEN runAfterGate(c, e)
     ELSE [c EXCEPT !.pc = "done",
                    !.res = authenticateCatch(
                      IF check = "badHeader"
                      THEN AuthenticationError("Missing or invalid authorization header")
                      ELSE AuthenticationError("Missing access token"))]

\* ... from the router
runRequest(s, h, e) ==
  LET c == [Idle EXCEPT !.req = [method |-> s.method, path |-> s.path,
                                 authorization |-> h, args |-> s.args],
                        !.route = MatchRoute(s.method, s.path)]
  IN IF c.route = 0 THEN [c EXCEPT !.pc = "done", !.res = notFoundHandler]
     ELSE runGate(c, e)

(***************************************************************************)
(* State.                                                                  *)
(***************************************************************************)
VARIABLES
  env,        \* NODE_ENV, fixed at startup
  pc,         \* where the request in service stands in the pipeline
  req,        \* the request in service
  route,      \* index in routes of the layer it was dispatched to, 0 = none
  user,       \* req.user: the identity attached, None if none
  res,        \* the response written, NoResponse while none is
  err,        \* the error travelling to the error middleware
  trace,      \* the pipeline stages entered, in order
  gateCalls,  \* calls of the auth provider made by the gate
  gateNext,   \* times the gate called next()
  gateOutcome,\* what the auth provider answered the gate, None if not asked
  calls,      \* client operations the controller invoked, in order
  reply,      \* how the awaited client call settled, NoReply before it has
  writes,     \* responses written for the request
  clientArgs, \* the params object a list handler called its client with
  params,     \* the query, or the posted body, of the upstream call
  hmacCalls,  \* the argument lists buildHmacSignature was called with, in order
  data,       \* the data payload of the response, NoData where not modelled
  proc,       \* the process: loading, loaded, listening, closing, exited, fatal
  environ,    \* process.env: the required configuration inputs
  upstreamTags, \* the tag list the upstream holds
  fatalKeys,  \* the keys named by the startup error, in order
  exits,      \* the codes process.exit was called with
  conns,      \* the connections of the server and the request each one serves
  timers,     \* expiry time of the armed shutdown timer
  elapsed     \* milliseconds since the first termination signal

reqVars ==
  << env, pc, req, route, user, res, err, trace, gateCalls, gateNext, gateOutcome,
     calls, reply, writes, clientArgs, params, hmacCalls, data >>

srvVars == << proc, environ, upstreamTags, fatalKeys, exits, conns, timers, elapsed >>

vars == << reqVars, srvVars >>

Init ==
  /\ env \in NodeEnvs
  /\ pc = "idle"
  /\ req = NoRequest
  /\ route = 0
  /\ user = None
  /\ res = NoResponse
  /\ err = NoError
  /\ trace = << >>
  /\ gateCalls = 0
  /\ gateNext = 0
  /\ gateOutcome = None
  /\ calls = << >>
  /\ reply = NoReply
  /\ writes = 0
  /\ clientArgs = NoParams
  /\ params = NoParams
  /\ hmacCalls = << >>
  /\ data = NoData
  /\ proc = "listening"
  /\ environ = ValidEnviron
  /\ upstreamTags = <<"politics", "crypto">>
  /\ fatalKeys = << >>
  /\ exits = << >>
  /\ conns = [i \in Slots |-> Idle]
  /\ timers = {}
  /\ elapsed = 0

\* a cors callback that admits every origin
corsAllows_AnyOrigin(origin) == TRUE

\* the cors origin callback: !origin || allowedOrigins.includes(origin)
corsAllows(origin) == origin = Absent \/ origin \in allowedOrigins

Respond(r) ==
  /\ res' = r
  /\ writes' = writes + 1
  /\ pc' = "done"

\* A connection delivers a request and createApp's stack runs up to the
\* route's first middleware: helmet, cors, body parsers, request logger,
\* router.  The Origin header o is read by the cors callback alone; an origin
\* it refuses sends the request to the error middleware.
Accept(s, h, o) ==
  /\ pc = "idle"
  /\ req' = [method |-> s.method, path |-> s.path, authorization |-> h, args |-> s.args]
  /\ IF ~corsAllows(o)
     THEN /\ err' = PlainError("Not allowed by CORS")
          /\ pc' = "error"
          /\ route' = route
     ELSE /\ route' = MatchRoute(s.method, s.path)
          /\ pc' = IF route' = 0 THEN "notFound" ELSE firstStage(routes[route'])
          /\ err' = err
  /\ UNCHANGED << env, user, res, trace, gateCalls, gateNext, gateOutcome, calls, writes, reply, clientArgs, params, hmacCalls, data, srvVars >>

\* authenticate, up to `await authService.getUserFromToken(token)`
Authenticate ==
  /\ pc = "authenticate"
  /\ trace' = Append(trace, "gate")
  /\ IF headerCheck(req.authorization) = "resolve"
     THEN /\ gateCalls' = gateCalls + 1
          /\ pc' = "authenticateWait"
          /\ UNCHANGED << res, writes >>
     ELSE /\ Respond(authenticateCatch(
                 IF headerCheck(req.authorization) = "badHeader"
                 THEN AuthenticationError("Missing or invalid authorization header")
                 ELSE AuthenticationError("Missing access token")))
          /\ gateCalls' = gateCalls
  /\ UNCHANGED << env, req, route, user, err, gateNext, gateOutcome, calls, reply, clientArgs, params, hmacCalls, data, srvVars >>

\* a required gate that calls next() whatever the provider answered
AuthenticateReply_AlwaysNext(outcome) ==
  /\ pc = "authenticateWait"
  /\ user' = getUserFromToken(substring7(req.authorization), outcome).user
  /\ gateNext' = gateNext + 1
  /\ pc' = afterGate(routes[route])
  /\ gateOutcome' = outcome
  /\ UNCHANGED << env, req, route, res, writes, err, trace, gateCalls, calls, reply, clientArgs, params, hmacCalls, data, srvVars >>

\* authenticate, from the provider's answer on
AuthenticateReply(outcome) ==
  /\ pc = "authenticateWait"
  /\ LET got == getUserFromToken(substring7(req.authorization), outcome)
     IN IF got.ok
        THEN /\ user' = got.user
             /\ gateNext' = gateNext + 1
             /\ pc' = afterGate(routes[route])
             /\ UNCHANGED << res, writes >>
        ELSE /\ Respond(authenticateCatch(got.error))
             /\ UNCHANGED << user, gateNext >>
  /\ gateOutcome' = outcome
  /\ UNCHANGED << env, req, route, err, trace, gateCalls, calls, reply, clientArgs, params, hmacCalls, data, srvVars >>

\* optionalAuth, up to the await or, without a usable token, to next()
OptionalAuth ==
  /\ pc = "optionalAuth"
  /\ trace' = Append(trace, "gate")
  /\ IF headerCheck(req.authorization) = "resolve"
     THEN /\ gateCalls' = gateCalls + 1
          /\ pc' = "optionalAuthWait"
          /\ gateNext' = gateNext
     ELSE /\ gateNext' = gateNext + 1
          /\ pc' = afterGate(routes[route])
          /\ gateCalls' = gateCalls
  /\ UNCHANGED << env, req, route, user, res, err, gateOutcome, calls, writes, reply, clientArgs, params, hmacCalls, data, srvVars >>

\* optionalAuth answering 401 on a failed resolution, as authenticate does
OptionalAuthReply_Rejects(outcome) ==
  /\ pc = "optionalAuthWait"
  /\ LET got == getUserFromToken(substring7(req.authorization), outcome)
     IN IF got.ok
        THEN /\ user' = got.user
             /\ gateNext' = gateNext + 1
             /\ pc' = afterGate(routes[route])
             /\ UNCHANGED << res, writes >>
        ELSE /\ Respond(authenticateCatch(got.error))
             /\ UNCHANGED << user, gateNext >>
  /\ gateOutcome' = outcome
  /\ UNCHANGED << env, req, route, err, trace, gateCalls, calls, reply, clientArgs, params, hmacCalls, data, srvVars >>

\* optionalAuth, from the provider's answer on: a failure is swallowed
OptionalAuthReply(outcome) ==
  /\ pc = "optionalAuthWait"
  /\ LET got == getUserFromToken(substring7(req.authorization), outcome)
     IN user' = IF got.ok THEN got.user ELSE user
  /\ gateNext' = gateNext + 1
  /\ pc' = afterGate(routes[route])
  /\ gateOutcome' = outcome
  /\ UNCHANGED << env, req, route, res, err, trace, gateCalls, calls, writes, reply, clientArgs, params, hmacCalls, data, srvVars >>

\* a validator that answers 400 without returning: the handler still runs
Validate_NoReturn ==
  /\ pc = "validate"
  /\ trace' = Append(trace, "validator")
  /\ LET issues == schemaIssues(routes[route].schema, req.args)
     IN /\ pc' = "handler"
        /\ res' = IF issues = << >> THEN res ELSE validateReject(issues)
        /\ writes' = IF issues = << >> THEN writes ELSE writes + 1
  /\ UNCHANGED << env, req, route, user, err, gateCalls, gateNext, gateOutcome, calls, reply, clientArgs, params, hmacCalls, data, srvVars >>

\* validate(schema)
Validate ==
  /\ pc = "validate"
  /\ trace' = Append(trace, "validator")
  /\ LET issues == schemaIssues(routes[route].schema, req.args)
     IN IF issues = << >>
        THEN /\ pc' = "handler"
             /\ UNCHANGED << res, writes >>
        ELSE Respond(validateReject(issues))
  /\ UNCHANGED << env, req, route, user, err, gateCalls, gateNext, gateOutcome, calls, reply, clientArgs, params, hmacCalls, data, srvVars >>

\* the route's controller method, up to its first await
Handler ==
  /\ pc = "handler"
  /\ trace' = Append(trace, "controller")
  /\ \E ts \in Timestamps :
       LET h == routes[route].handler
           plan == controller(h, req, user)
       IN /\ CASE plan.kind = "call" ->
                    /\ calls' = Append(calls, plan.call)
                    /\ pc' = "upstreamWait"
                    /\ UNCHANGED << res, writes, err >>
               [] plan.kind = "local" ->
                    /\ calls' = Append(calls, plan.call)
                    /\ Respond(plan.res)
                    /\ err' = err
               [] plan.kind = "respond" ->
                    /\ Respond(plan.res)
                    /\ UNCHANGED << calls, err >>
               [] OTHER ->
                    /\ err' = plan.err
                    /\ pc' = "error"
                    /\ UNCHANGED << calls, res, writes >>
          /\ clientArgs' = IF plan.kind = "call" THEN callArgs(h, req.args) ELSE clientArgs
          /\ params' = IF plan.kind = "call" THEN callParams(h, req.args) ELSE params
          /\ hmacCalls' = IF h = "sign" /\ plan.kind = "local"
                          THEN Append(hmacCalls, hmacArgs(req.args, ts))
                          ELSE hmacCalls
          /\ data' = IF plan.kind \in {"local", "respond"}
                     THEN responseData(h, req.args, ts)
                     ELSE data
  /\ UNCHANGED << env, req, route, user, gateCalls, gateNext, gateOutcome, reply, srvVars >>

\* the awaited client call settles and the controller resumes
UpstreamReply(o) ==
  /\ pc = "upstreamWait"
  /\ o \in OutcomesOf(calls[Len(calls)])
  /\ IF o.kind = "ok"
     THEN /\ Respond(controllerSuccess(routes[route].handler))
          /\ err' = err
     ELSE /\ err' = clientError(calls[Len(calls)], o)
          /\ pc' = "error"
          /\ UNCHANGED << res, writes >>
  /\ reply' = o
  /\ UNCHANGED << env, req, route, user, trace, gateCalls, gateNext, gateOutcome, calls, clientArgs, params, hmacCalls, data, srvVars >>

\* the terminal error middleware
ErrorHandler ==
  /\ pc = "error"
  /\ Respond(errorHandler(err, env))
  /\ UNCHANGED << env, req, route, user, err, trace, gateCalls, gateNext, gateOutcome, calls, reply, clientArgs, params, hmacCalls, data, srvVars >>

\* app.use(notFoundHandler)
NotFound ==
  /\ pc = "notFound"
  /\ Respond(notFoundHandler)
  /\ UNCHANGED << env, req, route, user, err, trace, gateCalls, gateNext, gateOutcome, calls, reply, clientArgs, params, hmacCalls, data, srvVars >>

\* the response is out and the request's objects are dropped
Finish ==
  /\ pc = "done"
  /\ pc' = "idle"
  /\ req' = NoRequest
  /\ route' = 0
  /\ user' = None
  /\ res' = NoResponse
  /\ err' = NoError
  /\ trace' = << >>
  /\ gateCalls' = 0
  /\ gateNext' = 0
  /\ gateOutcome' = None
  /\ calls' = << >>
  /\ reply' = NoReply
  /\ writes' = 0
  /\ clientArgs' = NoParams
  /\ params' = NoParams
  /\ hmacCalls' = << >>
  /\ data' = NoData
  /\ env' = env
  /\ UNCHANGED srvVars

Next ==
  \/ \E s \in Requests, h \in Headers, o \in Origins : Accept(s, h, o)
  \/ Authenticate
  \/ \E outcome \in ProviderOutcomes : AuthenticateReply(outcome)
  \/ OptionalAuth
  \/ \E outcome \in ProviderOutcomes : OptionalAuthReply(outcome)
  \/ Validate
  \/ Handler
  \/ \E o \in HttpOutcomes \cup {Reply(k, 0, FALSE) : k \in ProviderOutcomes} : UpstreamReply(o)
  \/ ErrorHandler
  \/ NotFound
  \/ Finish

Spec == Init /\ [][Next]_vars

\* every middleware and handler runs when it is reached, and every awaited
\* call settles: it returns, fails or times out
Live ==
  /\ Init
  /\ [][Next]_vars
  /\ WF_vars(Authenticate)
  /\ WF_vars(\E outcome \in ProviderOutcomes : AuthenticateReply(outcome))
  /\ WF_vars(OptionalAuth)
  /\ WF_vars(\E outcome \in ProviderOutcomes : OptionalAuthReply(outcome))
  /\ WF_vars(Validate)
  /\ WF_vars(Handler)
  /\ WF_vars(\E o \in HttpOutcomes \cup {Reply(k, 0, FALSE) : k \in ProviderOutcomes} :
               UpstreamReply(o))
  /\ WF_vars(ErrorHandler)
  /\ WF_vars(NotFound)

TypeOK ==
  /\ env \in NodeEnvs
  /\ pc \in {"idle", "authenticate", "authenticateWait", "optionalAuth",
             "optionalAuthWait", "validate", "handler", "upstreamWait", "error",
             "notFound", "done"}
  /\ route \in 0..Len(routes)
  /\ writes \in 0..1

(***************************************************************************)
(* The process: startup, concurrent service, shutdown (config/env.ts,      *)
(* server.ts).  A request runs without interruption between two awaits, so *)
(* each step below is one such run of one connection's request.            *)
(***************************************************************************)
ServerInit ==
  /\ env = "production"
  /\ pc = "idle"
  /\ req = NoRequest
  /\ route = 0
  /\ user = None
  /\ res = NoResponse
  /\ err = NoError
  /\ trace = << >>
  /\ gateCalls = 0
  /\ gateNext = 0
  /\ gateOutcome = None
  /\ calls = << >>
  /\ reply = NoReply
  /\ writes = 0
  /\ clientArgs = NoParams
  /\ params = NoParams
  /\ hmacCalls = << >>
  /\ data = NoData
  /\ proc = "loading"
  /\ environ \in Environs
  /\ upstreamTags \in TagLists
  /\ fatalKeys = << >>
  /\ exits = << >>
  /\ conns = [i \in Slots |-> Idle]
  /\ timers = {}
  /\ elapsed = 0

\* the first of a set of times
Earliest(ts) == CHOOSE t \in ts : \A u \in ts : t <= u

NoneInFlight == \A i \in Slots : conns[i].pc = "idle"

\* export const env = parseEnv(): the module throws while it is imported
\* when the environment does not parse
ParseEnv ==
  /\ proc = "loading"
  /\ IF envIssues(environ) = << >>
     THEN /\ proc' = "loaded"
          /\ UNCHANGED << fatalKeys, exits >>
     ELSE /\ proc' = "fatal"
          /\ fatalKeys' = envIssues(environ)
          /\ exits' = Append(exits, 1)
  /\ UNCHANGED << reqVars, environ, upstreamTags, conns, timers, elapsed >>

\* startServer: createApp() and app.listen(port)
Listen ==
  /\ proc = "loaded"
  /\ proc' = "listening"
  /\ UNCHANGED << reqVars, environ, upstreamTags, fatalKeys, exits, conns, timers, elapsed >>

\* a server that accepts nothing while a request awaits its upstream reply
Connect_Blocking(i, s, h) ==
  /\ proc = "listening"
  /\ conns[i].pc = "idle"
  /\ \A j \in Slots : conns[j].pc # "upstreamWait"
  /\ conns' = [conns EXCEPT ![i] = runRequest(s, h, env)]
  /\ UNCHANGED << reqVars, proc, environ, upstreamTags, fatalKeys, exits, timers, elapsed >>

\* a connection is accepted and its request runs to its first await
Connect(i, s, h) ==
  /\ proc = "listening"
  /\ conns[i].pc = "idle"
  /\ conns' = [conns EXCEPT ![i] = runRequest(s, h, env)]
  /\ UNCHANGED << reqVars, proc, environ, upstreamTags, fatalKeys, exits, timers, elapsed >>

\* the auth provider answers the gate of connection i
GateReply(i, outcome) ==
  /\ proc \in {"listening", "closing"}
  /\ conns[i].pc = "gateWait"
  /\ LET c == conns[i]
         got == getUserFromToken(substring7(c.req.authorization), outcome)
         asked == [conns EXCEPT ![i].gateOutcome = outcome]
         attached == setUser(asked, i, got.user)
     IN conns' =
          IF got.ok
          THEN [attached EXCEPT ![i] = runAfterGate(attached[i], env)]
          ELSE IF routes[c.route].auth = "required"
          THEN [asked EXCEPT ![i].pc = "done", ![i].res = authenticateCatch(got.error)]
          ELSE [asked EXCEPT ![i] = runAfterGate(asked[i], env)]
  /\ UNCHANGED << reqVars, proc, environ, upstreamTags, fatalKeys, exits, timers, elapsed >>

\* the client call awaited by the controller of connection i settles
ClientReply(i, o) ==
  /\ proc \in {"listening", "closing"}
  /\ conns[i].pc = "upstreamWait"
  /\ o \in ServerClientOutcomes(conns[i].call)
  /\ LET c == conns[i]
     IN conns' =
          [conns EXCEPT ![i].pc = "done", ![i].reply = o,
                        ![i].res = IF o.kind = "ok"
                                   THEN controllerSuccess(routes[c.route].handler)
                                   ELSE errorHandler(clientError(c.call, o), env),
                        ![i].data = IF o.kind = "ok" /\ routes[c.route].handler = "getTags"
                                    THEN getTags(upstreamTags)
                                    ELSE NoData]
  /\ UNCHANGED << reqVars, proc, environ, upstreamTags, fatalKeys, exits, timers, elapsed >>

\* the response of connection i is out and the connection ends
Close(i) ==
  /\ proc \in {"listening", "closing"}
  /\ conns[i].pc = "done"
  /\ conns' = [conns EXCEPT ![i] = Idle]
  /\ UNCHANGED << reqVars, proc, environ, upstreamTags, fatalKeys, exits, timers, elapsed >>

\* SIGTERM or SIGINT: gracefulShutdown calls server.close(callback) and arms
\* a timer of GraceMs.  A repeated signal arms one more timer, which expires
\* after the first and so never runs: only the first is kept.
Signal ==
  /\ proc \in {"listening", "closing"}
  /\ proc' = "closing"
  /\ timers' = IF timers = {} THEN {elapsed + GraceMs} ELSE timers
  /\ UNCHANGED << reqVars, environ, upstreamTags, fatalKeys, exits, conns, elapsed >>

\* a shutdown that exits without waiting for the connections to end
ServerClosed_IgnoresConnections ==
  /\ proc = "closing"
  /\ proc' = "exited"
  /\ exits' = Append(exits, 0)
  /\ UNCHANGED << reqVars, environ, upstreamTags, fatalKeys, conns, timers, elapsed >>

\* the callback of server.close: every connection has ended; process.exit(0)
ServerClosed ==
  /\ proc = "closing"
  /\ NoneInFlight
  /\ proc' = "exited"
  /\ exits' = Append(exits, 0)
  /\ UNCHANGED << reqVars, environ, upstreamTags, fatalKeys, conns, timers, elapsed >>

\* the shutdown timer fires: process.exit(1)
GraceTimeout ==
  /\ proc = "closing"
  /\ \E t \in timers : t <= elapsed
  /\ proc' = "exited"
  /\ exits' = Append(exits, 1)
  /\ UNCHANGED << reqVars, environ, upstreamTags, fatalKeys, conns, timers, elapsed >>

\* time passes during shutdown, up to the next timer's expiry; a due timer or
\* a due close callback runs before more time does
Tick ==
  /\ proc = "closing"
  /\ ~NoneInFlight
  /\ \A t \in timers : elapsed < t
  /\ elapsed' = Earliest(timers \cup {elapsed + TickMs})
  /\ UNCHANGED << reqVars, proc, environ, upstreamTags, fatalKeys, exits, conns, timers >>

\* process.on('uncaughtException'): process.exit(1)
UncaughtException ==
  /\ proc \in {"listening", "closing"}
  /\ proc' = "exited"
  /\ exits' = Append(exits, 1)
  /\ UNCHANGED << reqVars, environ, upstreamTags, fatalKeys, conns, timers, elapsed >>

ServerNext ==
  \/ ParseEnv
  \/ Listen
  \/ \E i \in Slots, sh \in ServerInputs : Connect(i, sh[1], sh[2])
  \/ \E i \in Slots, outcome \in ServerProviderOutcomes : GateReply(i, outcome)
  \/ \E i \in Slots, o \in HttpOutcomes : ClientReply(i, o)
  \/ \E i \in Slots : Close(i)
  \/ Signal
  \/ ServerClosed
  \/ GraceTimeout
  \/ Tick
  \/ UncaughtException

ServerSpec == ServerInit /\ [][ServerNext]_vars

\* the event loop runs a due callback and the clock advances
ServerLive ==
  /\ ServerInit
  /\ [][ServerNext]_vars
  /\ WF_vars(ServerClosed)
  /\ WF_vars(GraceTimeout)
  /\ WF_vars(Tick)

ServerTypeOK ==
  /\ proc \in {"loading", "loaded", "listening", "closing", "exited", "fatal"}
  /\ environ \in Environs
  /\ upstreamTags \in TagLists
  /\ \A i \in Slots : conns[i].pc \in {"idle", "gateWait", "upstreamWait", "done"}
  /\ elapsed \in 0..GraceMs
  /\ Len(exits) <= 1

(***************************************************************************)
(* Properties.                                                             *)
(***************************************************************************)
Dispatched == route # 0
theRoute == routes[route]
HandlerRan == \E i \in 1..Len(trace) : trace[i] = "controller"
ValidatorRan == \E i \in 1..Len(trace) : trace[i] = "validator"
GateRan == \E i \in 1..Len(trace) : trace[i] = "gate"
Answered == pc = "done"

\* the routes C1 lists as requiring authentication
C1_Routes ==
  { <<"GET", <<"auth", "me">> >>, <<"POST", <<"auth", "signout">> >>,
    <<"GET", <<"trading", "orders", ":address">> >>,
    <<"GET", <<"trading", "order", ":orderId">> >>,
    <<"POST", <<"trading", "order">> >>, <<"DELETE", <<"trading", "order">> >>,
    <<"DELETE", <<"trading", "orders">> >> }

OnRequiredAuthRoute ==
  Dispatched /\ << theRoute.method, theRoute.pattern >> \in C1_Routes

\* header absent, not starting with 'Bearer ', or carrying an empty token
MalformedAuthorization(h) == ~h.present \/ h.prefix # "Bearer " \/ h.rest = ""

\* C1: a request dispatched to a required-auth route whose Authorization
\* header is absent, does not start with 'Bearer ' or carries an empty token
\* is answered 401, and neither the auth provider, nor the route handler,
\* nor any client operation is invoked for it.
C1_MalformedHeaderRejected ==
  (OnRequiredAuthRoute /\ MalformedAuthorization(req.authorization)) =>
     /\ gateCalls = 0
     /\ ~HandlerRan
     /\ calls = << >>
     /\ pc \in {"authenticate", "done"}
     /\ Answered => res.status = 401 /\ res.by = "authenticate"

C1_Witness ==
  /\ OnRequiredAuthRoute
  /\ req.authorization = Hdr("Bearer ", "")
  /\ Answered
  /\ res.status = 401

\* C2: in required-auth mode with a well-formed bearer token the gate asks
\* the auth provider exactly once; when the provider rejects the token,
\* returns no user or throws, the answer is 401 and the handler is not
\* invoked; when it resolves a user, that user is the request's identity
\* whenever a later stage runs.
C2_RequiredGateResolvesOnce ==
  (OnRequiredAuthRoute /\ ~MalformedAuthorization(req.authorization)) =>
     /\ gateCalls <= 1
     /\ pc # "authenticate" => gateCalls = 1
     /\ pc \notin {"authenticate", "authenticateWait"} =>
          /\ gateOutcome \in ProviderOutcomes
          /\ gateOutcome # "ok" =>
               /\ Answered /\ res.status = 401 /\ res.by = "authenticate"
               /\ ~HandlerRan /\ calls = << >> /\ user = None /\ gateNext = 0
          /\ gateOutcome = "ok" =>
               /\ user = req.authorization.rest
               /\ gateNext = 1
               /\ res.by # "authenticate"
     /\ (HandlerRan \/ pc = "handler") => user # None /\ gateOutcome = "ok"

C2_Witness ==
  /\ OnRequiredAuthRoute
  /\ gateOutcome = "incomplete"
  /\ Answered
  /\ res.status = 401

C2_WitnessResolved ==
  /\ OnRequiredAuthRoute
  /\ gateOutcome = "ok"
  /\ HandlerRan
  /\ user = "tok1"

OnOptionalAuthRoute == Dispatched /\ theRoute.auth = "optional"

\* C3: in optional-auth mode every outcome of identity resolution lets the
\* pipeline continue: the gate calls next() exactly once, the request
\* carries an identity only when the provider resolved the token to a user,
\* and the gate never writes a response.
C3_OptionalGateNeverBlocks ==
  OnOptionalAuthRoute =>
     /\ gateNext <= 1
     /\ res.by # "authenticate"
     /\ pc \notin {"optionalAuth", "optionalAuthWait"} =>
          /\ gateNext = 1
          /\ (user # None) <=> (gateOutcome = "ok")
          /\ ValidatorRan \/ HandlerRan \/ pc \in {"validate", "handler"}
     /\ (MalformedAuthorization(req.authorization) /\ pc # "optionalAuth") =>
          gateCalls = 0 /\ gateNext = 1 /\ user = None
     /\ gateCalls <= 1

C3_Witness ==
  /\ OnOptionalAuthRoute
  /\ gateOutcome = "throws"
  /\ HandlerRan
  /\ user = None
  /\ Answered
  /\ res.status = 200

\* the fields of a request that break the schema its route is bound to,
\* read off the claim: what each field has to be
C4_Violated(method, path, a) ==
  CASE method = "POST" /\ path = <<"auth", "signin">> ->
         {f \in {"body.email"} : a.email \in {Absent, NotString, "not-an-email"}}
    [] method = "POST" /\ path = <<"auth", "verify">> ->
         {f \in {"body.email"} : a.email \in {Absent, NotString, "not-an-email"}}
           \cup {f \in {"body.token"} : a.token.t # "str" \/ a.token.len < 6}
    [] method = "GET" /\ path = <<"comments">> ->
         {f \in {"query.limit"} : a.limit \in {NotString, "-1", "abc"}}
           \cup {f \in {"query.offset"} : a.offset \in {NotString, "-1", "abc"}}
           \cup {f \in {"query.ascending"} : a.ascending \notin {Absent, "true", "false"}}
           \cup {f \in {"query.parent_entity_type"} :
                   a.ptype \notin {Absent, "Event", "Series", "market"}}
    [] method = "POST" /\ path = <<"polymarket", "sign">> ->
         {f \in {"body.method"} : a.smethod \in {Absent, NotString}}
           \cup {f \in {"body.path"} : a.spath \in {Absent, NotString}}
           \cup {f \in {"body.body"} : a.sbody = NotString}
    [] OTHER -> {}

C4_BadFields == C4_Violated(req.method, req.path, req.args)

StageRank(st) ==
  CASE st = "gate" -> 1
    [] st = "validator" -> 2
    [] OTHER -> 3

BusinessClients == {"market", "clob", "comments", "signing"}

\* C5: the stages of a request run in the order authentication gate, request
\* validator, controller, upstream client, each at most once and none of its
\* route's stages skipped, and a request the gate or the validator rejected
\* never causes a market-data, trading, comments or signing operation.
C5_PipelineOrder ==
  /\ \A i, j \in 1..Len(trace) : i < j => StageRank(trace[i]) < StageRank(trace[j])
  /\ Len(calls) <= 1
  /\ calls # << >> => HandlerRan
  /\ (HandlerRan \/ pc = "handler") =>
       /\ theRoute.auth # "none" => GateRan
       /\ theRoute.schema # "none" => ValidatorRan
  /\ res.by \in {"authenticate", "validate"} =>
       /\ ~HandlerRan
       /\ \A i \in 1..Len(calls) : calls[i].client \notin BusinessClients

\* GET /comments went through gate, validator and controller and called
\* the comments client
C5_Witness ==
  /\ trace = << "gate", "validator", "controller" >>
  /\ calls = << Call("comments", "getComments") >>
  /\ Answered

C5_WitnessRejected ==
  /\ trace = << "gate", "validator" >>
  /\ res.by = "validate"
  /\ calls = << >>

\* C6: every response the gateway emits has the uniform envelope: a boolean
\* success flag, exactly one of data (success) or error{message, code}
\* (failure), and meta.timestamp.
C6_UniformEnvelope ==
  Answered =>
     /\ res.json
     /\ res.meta
     /\ res.success => res.hasData /\ ~res.hasError
     /\ ~res.success =>
          res.hasError /\ ~res.hasData /\ res.message # Undef /\ res.code # Undef

lastCall == calls[Len(calls)]
UpstreamFailed == calls # << >> /\ reply # NoReply /\ reply.kind # "ok"

\* the gateway error kind C7 names for an upstream status
C7_ClaimedCodes(status) ==
  CASE status = 400 -> {Str("BAD_REQUEST")}
    [] status = 401 -> {Str("UNAUTHORIZED")}
    [] status = 404 -> {Str("NOT_FOUND")}
    [] status = 429 -> {Str("RATE_LIMIT_EXCEEDED")}
    [] status >= 500 -> {Str("SERVER_ERROR"), Str("SERVICE_UNAVAILABLE")}
    [] OTHER -> {}

\* C7 as stated: for the market-data and the trading client an upstream
\* status 400, 401, 404 or 429 becomes a BadRequest, Unauthorized, NotFound
\* or RateLimitExceeded gateway error with the same status, and a 5xx a
\* ServerError/ServiceUnavailable one.
C7_AsStated ==
  (Answered /\ UpstreamFailed /\ lastCall.client \in {"market", "clob"}
     /\ reply.kind = "status") =>
     /\ res.status = reply.status
     /\ res.code \in C7_ClaimedCodes(reply.status)

\* the codes the two clients do produce
C7_ActualCodes(client, status) ==
  CASE status = 400 -> Str("BAD_REQUEST")
    [] status = 404 -> Str("NOT_FOUND")
    [] status = 429 -> Str("RATE_LIMIT_EXCEEDED")
    [] status = 401 /\ client = "clob" -> Str("UNAUTHORIZED")
    [] status = 500 /\ client = "market" -> Str("SERVER_ERROR")
    [] OTHER -> IF client = "market" THEN Str("POLYMARKET_API_ERROR")
                ELSE Str("CLOB_API_ERROR")

\* C7, amended: for both clients the gateway error carries the upstream
\* status; 400, 404 and 429 get the codes BAD_REQUEST, NOT_FOUND and
\* RATE_LIMIT_EXCEEDED; 401 gets UNAUTHORIZED from the trading client only;
\* 500 gets SERVER_ERROR from the market-data client only; every other
\* status gets the client's generic code.  An upstream 429 on
\* /markets/trending is answered 429 RATE_LIMIT_EXCEEDED.
C7_StatusTranslation ==
  (Answered /\ UpstreamFailed /\ lastCall.client \in {"market", "clob"}
     /\ reply.kind = "status") =>
     /\ res.status = reply.status
     /\ res.code = C7_ActualCodes(lastCall.client, reply.status)
     /\ res.by = "errorHandler"
     /\ ~res.success

C7_Witness ==
  /\ Answered
  /\ req.path = <<"markets", "trending">>
  /\ reply = Reply("status", 429, FALSE)
  /\ res.status = 429
  /\ res.code = Str("RATE_LIMIT_EXCEEDED")

\* C8 as stated: for every upstream client a call that gets no HTTP response
\* is answered 504 when it timed out and 503 when the upstream was unreachable.
C8_AsStated ==
  (Answered /\ UpstreamFailed /\ reply.kind \in {"timeout", "unreachable", "throws"}) =>
     res.status = IF reply.kind = "timeout" THEN 504 ELSE 503

\* C8, amended: for the market-data and the trading client a call that gets
\* no HTTP response is answered 504 (TIMEOUT) when it timed out and 503
\* (SERVICE_UNAVAILABLE) otherwise; the comments client makes no such
\* distinction and its caller receives 500 in both cases.
C8_NoResponseTranslation ==
  (Answered /\ UpstreamFailed /\ reply.kind \in {"timeout", "unreachable"}) =>
     IF lastCall.client \in {"market", "clob"}
     THEN /\ res.status = IF reply.kind = "timeout" THEN 504 ELSE 503
          /\ res.code = IF reply.kind = "timeout" THEN Str("TIMEOUT")
                        ELSE Str("SERVICE_UNAVAILABLE")
     ELSE lastCall.client = "comments" /\ res.status = 500

C8_Witness ==
  /\ Answered
  /\ calls = << Call("clob", "createOrder") >>
  /\ reply.kind = "timeout"
  /\ res.status = 504

C8_WitnessComments ==
  /\ Answered
  /\ calls = << Call("comments", "getComments") >>
  /\ reply.kind = "timeout"
  /\ res.status = 500

\* C9 as stated: every handler invocation issues exactly one upstream client
\* operation.
C9_AsStated ==
  (Answered /\ HandlerRan) => Len(calls) = 1

\* the handler invocations that answer without a client operation
C9_AnswersLocally ==
  \/ theRoute.handler \in {"getCurrentUser", "getBuilderInfo", "health"}
  \/ theRoute.handler = "searchMarkets" /\ req.args.q \in {Absent, ""}
  \/ /\ theRoute.handler = "sign"
     /\ \/ req.args.smethod \notin {"GET", "get"}
        \/ req.args.spath # "/orderbook"
        \/ req.args.sbody = "{bad"

\* C9, amended: every handler invocation issues at most one client operation
\* and the gateway never repeats it, whether the call succeeds, fails or
\* times out; it issues exactly one except where the handler answers
\* locally (GET /auth/me, GET /polymarket/builder-info, GET /health, GET
\* /markets/search without q, POST /polymarket/sign with an input the
\* signing client refuses).  GET /trading/orderbook/:tokenId calls
\* get-orderbook-with-depth when depth is given and get-orderbook otherwise.
C9_AtMostOneCall ==
  /\ Len(calls) <= 1
  /\ calls # << >> => HandlerRan
  /\ (HandlerRan /\ pc # "handler") =>
       /\ C9_AnswersLocally <=> calls = << >>
       /\ theRoute.handler = "getOrderbook" =>
            calls = << Call("clob", IF req.args.depth = "5" THEN "getOrderbookDepth"
                                    ELSE "getOrderbook") >>

C9_Witness ==
  /\ Answered
  /\ Dispatched
  /\ theRoute.handler = "getOrderbook"
  /\ req.args.depth = "5"
  /\ reply.kind = "timeout"
  /\ calls = << Call("clob", "getOrderbookDepth") >>

C9_WitnessLocal ==
  /\ Answered
  /\ Dispatched
  /\ theRoute.handler = "searchMarkets"
  /\ calls = << >>
  /\ res.status = 400

ErrorHandled == Answered /\ err # NoError

\* C10 as stated: the terminal error handler answers a thrown gateway error
\* with its statusCode, code, message and details, and any other thrown
\* value with 500 INTERNAL_SERVER_ERROR whose message is the real error text
\* in every non-production environment and the generic string in production.
C10_AsStated ==
  ErrorHandled =>
     IF err.isApiError
     THEN /\ Num(res.status) = err.statusCode
          /\ res.code = err.code
          /\ res.message = err.message
          /\ res.details = err.details
     ELSE /\ res.status = 500
          /\ res.code = Str("INTERNAL_SERVER_ERROR")
          /\ res.message = IF env # "production" THEN err.message
                           ELSE Str("Internal server error")

\* C10, amended: the terminal error handler answers a thrown gateway error
\* whose statusCode is an HTTP status with that statusCode, code, message
\* and details; a gateway error whose statusCode is not one (the comments
\* client's) cannot be written and the caller receives a bare 500; any other
\* thrown value is answered 500 INTERNAL_SERVER_ERROR whose message is the
\* real error text in the development environment only and the generic
\* string in production and test.
C10_ErrorHandlerAnswer ==
  ErrorHandled =>
     IF err.isApiError
     THEN IF err.statusCode.t = "num"
          THEN /\ Num(res.status) = err.statusCode
               /\ res.code = err.code
               /\ res.message = err.message
               /\ res.details = err.details
               /\ res.by = "errorHandler"
          ELSE res.status = 500 /\ ~res.json
     ELSE /\ res.status = 500
          /\ res.code = Str("INTERNAL_SERVER_ERROR")
          /\ res.message = IF env = "development" THEN err.message
                           ELSE Str("Internal server error")

C10_Witness ==
  /\ ErrorHandled
  /\ env = "test"
  /\ ~err.isApiError
  /\ res.status = 500
  /\ res.message = Str("Internal server error")

C10_WitnessApiError ==
  /\ ErrorHandled
  /\ err.isApiError
  /\ res.status = 429
  /\ res.code = Str("RATE_LIMIT_EXCEEDED")


\* C11: with NODE_ENV=production no response body carries an error.stack
\* field, whatever requests were served before.
C11_NoStackInProduction ==
  env = "production" => ~res.stack

C11_Witness ==
  /\ env = "production"
  /\ ErrorHandled
  /\ ~err.isApiError
  /\ res.by = "errorHandler"
  /\ res.status = 500
  /\ ~res.stack

C11_WitnessDevelopment ==
  /\ env = "development"
  /\ ErrorHandled
  /\ res.stack

\* the sample requests whose method and path no registered route has
C12_Unmatched ==
  \/ req.path = <<"unknown", "route">>
  \/ req.method = "POST" /\ req.path = <<"markets", "tags">>

\* the request went past the cors middleware (its origin was not refused)
CorsAdmitted == err # PlainError("Not allowed by CORS")

\* C12: a request that matches no registered route is answered 404 with the
\* error envelope and code NOT_FOUND, and no gate, validator, handler or
\* client operation runs for it.
C12_UnmatchedRouteIs404 ==
  (C12_Unmatched /\ CorsAdmitted /\ req # NoRequest) =>
    /\ route = 0
    /\ trace = << >>
    /\ calls = << >>
    /\ gateCalls = 0
    /\ pc \in {"notFound", "done"}
    /\ Answered =>
         /\ res.by = "notFoundHandler"
         /\ res.status = 404
         /\ ~res.success /\ res.hasError /\ ~res.hasData
         /\ res.code = Str("NOT_FOUND")
         /\ res.meta
         /\ writes = 1

C12_Witness ==
  /\ Answered
  /\ req.method = "POST"
  /\ req.path = <<"markets", "tags">>
  /\ res.status = 404
  /\ res.code = Str("NOT_FOUND")

\* the handler issued its client call
CallIssued == Dispatched /\ calls # << >>

\* C13: an explicit limit of GET /markets/events is the limit of the upstream
\* events call, the value 0 included: no default replaces it and the
\* parameter is not dropped.
C13_ExplicitLimitForwarded ==
  (CallIssued /\ theRoute.handler = "getEvents" /\ req.args.limit \in {"0", "5"}) =>
    params.limit = Num(IF req.args.limit = "0" THEN 0 ELSE 5)

\* the value C14 gives a flag of the upstream call for a query value
C14_Flag(q) ==
  CASE q = "true" -> Bool(TRUE)
    [] q = "false" -> Bool(FALSE)
    [] OTHER -> Undef

\* C14: on GET /markets/events, GET /markets and GET /markets/events/tag/:tagId
\* the upstream call carries each of active, closed and archived as true for
\* the query value "true", as false for "false", and not at all otherwise.
C14_BooleanFlags ==
  (CallIssued /\ theRoute.handler \in {"getEvents", "getMarkets", "getEventsByTag"}) =>
    /\ params.active = C14_Flag(req.args.active)
    /\ params.closed = C14_Flag(req.args.closed)
    /\ params.archived = C14_Flag(req.args.archived)

C14_Witness ==
  /\ CallIssued
  /\ theRoute.handler = "getEventsByTag"
  /\ req.args.active = "TRUE"
  /\ req.args.archived = "true"
  /\ params.active = Undef
  /\ params.closed = Undef
  /\ params.archived = Bool(TRUE)
  /\ Answered

C14_WitnessFalse ==
  /\ CallIssued
  /\ theRoute.handler = "getMarkets"
  /\ req.args.active = "false"
  /\ params.active = Bool(FALSE)
  /\ params.archived = Undef

OnSignRoute == Dispatched /\ theRoute.handler = "sign"

\* a signing request C15 says is refused
C15_BadRequest ==
  \/ req.args.smethod \notin {"GET", "POST", "DELETE", "PUT", "PATCH"}
  \/ req.args.spath \in {Absent, "orderbook"}
  \/ req.args.sbody = "{bad"

C16_Valid ==
  /\ req.args.smethod \in {"GET", "POST", "DELETE", "PUT", "PATCH"}
  /\ req.args.spath = "/orderbook"
  /\ req.args.sbody \in {Absent, "", "{}"}

C17_Fields == DOMAIN data \ {"kind"}
OnWalletRoute == Dispatched /\ theRoute.handler \in {"sign", "getBuilderInfo"}

C17_WitnessBuilderInfo ==
  /\ Answered
  /\ Dispatched
  /\ theRoute.handler = "getBuilderInfo"
  /\ data.kind = "builderInfo"
  /\ data.hasSecret = Bool(TRUE)

C18_WitnessTimeout ==
  /\ proc = "exited"
  /\ exits = << 1 >>
  /\ elapsed = GraceMs
  /\ ~NoneInFlight

\* the required inputs that are missing or fail their shape check
C19_Offending ==
  {k \in {"SUPABASE_URL"} : environ[k] \in {Absent, "not-a-url"}}
    \cup {k \in {"SUPABASE_ANON_KEY", "SUPABASE_SERVICE_ROLE_KEY"} :
            environ[k] \in {Absent, ""}}

\* C19: with a required configuration input missing or malformed the process
\* stops at startup with an error that names exactly the offending keys; it
\* never listens and never has a request in service.
C19_InvalidConfigNeverServes ==
  C19_Offending # {} =>
    /\ proc \in {"loading", "fatal"}
    /\ NoneInFlight
    /\ proc = "fatal" =>
         /\ {fatalKeys[n] : n \in 1..Len(fatalKeys)} = C19_Offending
         /\ exits = << 1 >>

C19_Witness ==
  /\ proc = "fatal"
  /\ environ.SUPABASE_URL = "not-a-url"
  /\ environ.SUPABASE_ANON_KEY = Absent
  /\ environ.SUPABASE_SERVICE_ROLE_KEY = "key"
  /\ fatalKeys = << "SUPABASE_URL", "SUPABASE_ANON_KEY" >>

C19_WitnessServing ==
  /\ proc = "listening"
  /\ ~NoneInFlight
  /\ C19_Offending = {}

\* the identity the request of a connection can resolve from its own header
C20_Own(c) == {None, substring7(c.req.authorization)}

\* C20: whatever the interleaving of the requests in service, a step of one
\* request changes nothing of another; the identity a handler sees is the one
\* resolved from its own request's token; and two requests with the same
\* input and the same replies to their own calls get the same response.
C20_NoCrossRequestState ==
  /\ [][\A i, j \in Slots :
          (i # j /\ conns'[i] # conns[i]) => conns'[j] = conns[j]]_vars
  /\ [](\A i \in Slots :
          /\ conns[i].user \in C20_Own(conns[i])
          /\ conns[i].seen \in C20_Own(conns[i])
          /\ conns[i].user # None => conns[i].gateOutcome = "ok")
  /\ [](\A i, j \in Slots :
          ( /\ conns[i].pc = "done" /\ conns[j].pc = "done"
            /\ conns[i].req = conns[j].req
            /\ conns[i].gateOutcome = conns[j].gateOutcome
            /\ conns[i].reply = conns[j].reply )
          => conns[i].res = conns[j].res)

C20_Witness ==
  /\ conns[1].pc = "done" /\ conns[2].pc = "upstreamWait"
  /\ conns[1].seen = "tok1" /\ conns[2].seen = "tok2"
  /\ conns[1].req.path = <<"auth", "me">>
  /\ conns[1].res.status = 200

\* C21: a request suspended on its upstream call blocks only itself.  While
\* connection a awaits its upstream reply and the server listens, every other
\* connection b can take its next step whatever it is: be accepted with any
\* request, have its gate answered, have its own upstream call settle, or end
\* after its response.
C21_UpstreamWaitBlocksOnlyItself ==
  \A a \in Slots, b \in Slots :
    (a # b /\ proc = "listening" /\ conns[a].pc = "upstreamWait") =>
      /\ conns[b].pc = "idle" =>
           \A s \in ServerRequests, h \in ServerHeaders : ENABLED Connect(b, s, h)
      /\ conns[b].pc = "gateWait" =>
           \A outcome \in ServerProviderOutcomes : ENABLED GateReply(b, outcome)
      /\ conns[b].pc = "upstreamWait" =>
           \A o \in ServerClientOutcomes(conns[b].call) : ENABLED ClientReply(b, o)
      /\ conns[b].pc = "done" => ENABLED Close(b)

\* connection 1 still awaits the trending markets while connection 2 has been
\* accepted, passed its gate and its own upstream-free handler, and holds its
\* response
C21_Witness ==
  /\ proc = "listening"
  /\ conns[1].pc = "upstreamWait"
  /\ routes[conns[1].route].handler = "getTrendingMarkets"
  /\ conns[2].pc = "done"
  /\ conns[2].gateOutcome = "ok"
  /\ conns[2].res.status = 200

\* ... or has made and completed an upstream call of its own
C21_WitnessUpstream ==
  /\ proc = "listening"
  /\ conns[1].pc = "upstreamWait"
  /\ conns[2].pc = "done"
  /\ conns[2].reply # NoReply
  /\ conns[2].res.status = 200

\* connection i holds the successful response of a GET /markets/tags
C22_TagsOut(i) ==
  /\ conns[i].pc = "done"
  /\ conns[i].route # 0
  /\ routes[conns[i].route].handler = "getTags"
  /\ conns[i].reply.kind = "ok"

\* C22: GET /markets/tags adds no state of its own.  With the upstream tag
\* list unchanged, every successful response carries that list, same elements
\* in the same order, with its length as count; so two calls, the second made
\* after the first was answered and after any other requests, return identical
\* data.tags.
C22_TagsIdempotent ==
  /\ \A i \in Slots :
       C22_TagsOut(i) =>
         /\ conns[i].data.tags = upstreamTags
         /\ conns[i].data.count = Len(upstreamTags)
  /\ \A i \in Slots, j \in Slots :
       (C22_TagsOut(i) /\ C22_TagsOut(j)) => conns[i].data.tags = conns[j].data.tags

\* two answered calls of GET /markets/tags over an upstream list whose order is
\* not the alphabetical one
C22_Witness ==
  /\ C22_TagsOut(1) /\ C22_TagsOut(2)
  /\ upstreamTags = <<"politics", "crypto">>
  /\ conns[1].data.tags = <<"politics", "crypto">>
  /\ conns[2].data.count = 2

\* the request in service is a POST /trading/order
C23_OnCreateOrder == Dispatched /\ theRoute.handler = "createOrder"

\* C23: for an authenticated POST /trading/order the body posted to the trading
\* API is the request body as received, whatever it holds: no validator ran
\* and nothing was answered locally; the call is made once, only with an
\* identity attached; and when it succeeds the response is the success
\* envelope with status 201.
C23_OrderForwardedUnmodified ==
  /\ (C23_OnCreateOrder /\ HandlerRan) =>
       /\ user # None
       /\ ~ValidatorRan
       /\ calls = << Call("clob", "createOrder") >>
       /\ params = req.args.order
  /\ (C23_OnCreateOrder /\ Answered /\ reply # NoReply /\ reply.kind = "ok") =>
       /\ res.status = 201
       /\ res.success /\ res.hasData /\ ~res.hasError

\* an order with an unknown field and a malformed signature went upstream as
\* it came and the reply came back as 201
C23_Witness ==
  /\ C23_OnCreateOrder /\ Answered
  /\ <<"extra", "1">> \in req.args.order
  /\ reply # NoReply /\ reply.kind = "ok"
  /\ params = req.args.order
  /\ res.status = 201

\* the empty object is forwarded too
C23_WitnessEmpty ==
  /\ C23_OnCreateOrder /\ pc = "upstreamWait"
  /\ req.args.order = {} /\ params = {}

\* a list handler issued its client call for a request without limit and offset
C24_Defaulted ==
  /\ CallIssued
  /\ theRoute.handler \in {"getEvents", "getMarkets", "getEventsByTag"}
  /\ req.args.limit = Absent /\ req.args.offset = Absent

\* C24 as stated: without limit and offset the three list handlers call the
\* client with limit = 50 and offset = 0.
C24_AsStated ==
  C24_Defaulted =>
    /\ clientArgs.limit = Num(50)
    /\ clientArgs.offset = Num(0)

\* C24: without limit and offset, GET /markets/events and GET /markets call the
\* client with limit = 50 and offset = 0, and GET /markets/events/tag/:tagId
\* with limit = 200 and offset = 0; the limit is the limit of the upstream
\* query.
C24_DefaultPaging ==
  C24_Defaulted =>
    /\ clientArgs.offset = Num(0)
    /\ theRoute.handler \in {"getEvents", "getMarkets"} =>
         clientArgs.limit = Num(50) /\ params.limit = Num(50)
    /\ theRoute.handler = "getEventsByTag" =>
         clientArgs.limit = Num(200) /\ params.limit = Num(200)

\* the markets list was asked without limit and offset and its call went out
C24_Witness ==
  /\ C24_Defaulted
  /\ theRoute.handler = "getMarkets"
  /\ clientArgs.limit = Num(50) /\ clientArgs.offset = Num(0)

\* ... and the events of a tag
C24_WitnessTag ==
  /\ C24_Defaulted
  /\ theRoute.handler = "getEventsByTag"
  /\ clientArgs.limit = Num(200)

\* the call of the comments client made for GET /comments failed and the
\* request was answered
C25_CommentsFailed ==
  /\ Answered /\ UpstreamFailed
  /\ lastCall = Call("comments", "getComments")

\* C25: when the comments upstream answers with a failure status s the
\* gateway's response has status s and the uniform error envelope carrying the
\* upstream's message; when the upstream gives no status the response status
\* is a 5xx.
C25_CommentsStatusMirrored ==
  C25_CommentsFailed =>
    IF reply.kind = "status"
    THEN /\ res.status = reply.status
         /\ res.json /\ ~res.success /\ res.hasError
         /\ res.message = upstreamMessage(reply)
    ELSE res.status >= 500 /\ res.status <= 599

\* C26: on a route behind the required gate the handler runs only with an
\* identity attached to the request, the one the provider resolved from the
\* request's token; so GET /auth/me is never answered by its 'User not found'
\* branch (404, USER_NOT_FOUND).
C26_HandlerHasIdentity ==
  /\ (Dispatched /\ theRoute.auth = "required" /\ HandlerRan) =>
       /\ user # None
       /\ user = substring7(req.authorization)
       /\ gateOutcome = "ok"
  /\ (Dispatched /\ theRoute.handler = "getCurrentUser") =>
       /\ res.status # 404
       /\ res.code # Str("USER_NOT_FOUND")

\* GET /auth/me ran its handler with the identity of its token and answered 200
C26_Witness ==
  /\ Dispatched /\ theRoute.handler = "getCurrentUser"
  /\ HandlerRan /\ Answered
  /\ user = "tok1"
  /\ res.status = 200

\* C27: every accepted request is answered exactly once.  On every path of the
\* pipeline no response is written before the request is answered and exactly
\* one has been when it is; nothing of the pipeline runs after the write, and
\* the response written stays as it is until the request is dropped; and, every
\* awaited call settling, an accepted request is eventually answered.
C27_AnsweredExactlyOnce ==
  /\ [](writes <= 1)
  /\ [](IF Answered THEN writes = 1 /\ res # NoResponse
        ELSE writes = 0 /\ res = NoResponse)
  /\ [][res # NoResponse => (res' = res \/ pc' = "idle")]_vars
  /\ [][Answered => (pc' = "done" \/ pc' = "idle")]_vars
  /\ (pc # "idle") ~> Answered

\* a request whose awaited call failed was answered, once, by the error
\* middleware
C27_Witness ==
  /\ Answered /\ writes = 1
  /\ UpstreamFailed
  /\ res.by = "errorHandler"

\* ... and one refused by the validator, once, without its handler
C27_WitnessRejected ==
  /\ Answered /\ writes = 1
  /\ ValidatorRan /\ ~HandlerRan
  /\ res.status = 400

\* the layers registered for GET /markets/:id and GET /markets/events/:slug
C28_ById == CHOOSE i \in 1..Len(routes) : routes[i].handler = "getMarketById"
C28_BySlug == CHOOSE i \in 1..Len(routes) : routes[i].handler = "getEventBySlug"

\* the handler C28 names for the fixed paths a parameterised route also matches
C28_Fixed(path) ==
  CASE path = <<"markets", "tags">> -> "getTags"
    [] path = <<"markets", "featured">> -> "getFeaturedMarkets"
    [] path = <<"markets", "trending">> -> "getTrendingMarkets"
    [] path = <<"markets", "search">> -> "searchMarkets"
    [] path = <<"markets", "events">> -> "getEvents"
    [] Len(path) = 3 /\ path[1] = "markets" /\ path[2] = "slug" -> "getMarketBySlug"
    [] Len(path) = 4 /\ path[1] = "markets" /\ path[2] = "events" /\ path[3] = "tag" ->
         "getEventsByTag"
    [] OTHER -> None

\* C28: a request is dispatched to the first registered layer that matches it,
\* and every fixed path is registered before a parameterised route that also
\* matches it: GET /markets/tags, /featured, /trending, /search and
\* /slug/:slug never reach the /markets/:id handler and GET
\* /markets/events/tag/:tagId never reaches the /markets/events/:slug handler.
\* (The route table is the same in every state; its order is examined in the
\* states between two requests.)
C28_FixedBeforeParameterised ==
  /\ Dispatched =>
       /\ RouteMatches(theRoute, req.method, req.path)
       /\ \A j \in 1..(route - 1) : ~RouteMatches(routes[j], req.method, req.path)
  /\ (Dispatched /\ req.method = "GET" /\ C28_Fixed(req.path) # None) =>
       /\ theRoute.handler = C28_Fixed(req.path)
       /\ route # C28_ById /\ route # C28_BySlug
  /\ pc = "idle" =>
       \A i \in 1..Len(routes), j \in 1..Len(routes) :
         (i < j /\ \A k \in 1..Len(routes[j].pattern) : routes[j].pattern[k] \notin ParamSegs)
           => ~RouteMatches(routes[i], routes[j].method, routes[j].pattern)

\* GET /markets/trending, which the /markets/:id layer matches too, went to
\* its own handler
C28_Witness ==
  /\ Dispatched /\ HandlerRan
  /\ req.path = <<"markets", "trending">>
  /\ RouteMatches(routes[C28_ById], req.method, req.path)
  /\ theRoute.handler = "getTrendingMarkets"

\* ... and GET /markets/m1 to the /markets/:id handler
C28_WitnessById ==
  /\ Dispatched /\ HandlerRan
  /\ req.path = <<"markets", "m1">>
  /\ route = C28_ById

\* C29: a request whose Origin header is not in the allowed-origins list is
\* handed to the error middleware by the cors stage; no route, gate, validator,
\* handler or client operation runs for it and it is answered as a non-gateway
\* error: status 500, code INTERNAL_SERVER_ERROR.  A request with no Origin
\* header, or with an allowed one, is never refused by the cors stage.
C29_CorsGate ==
  /\ [][pc = "idle" =>
          \A s \in Requests, h \in Headers, o \in Origins :
            Accept(s, h, o) =>
              IF o # Absent /\ o \notin allowedOrigins
              THEN pc' = "error" /\ err' = PlainError("Not allowed by CORS")
              ELSE pc' # "error" /\ err' = NoError]_vars
  /\ [](~CorsAdmitted =>
          /\ route = 0 /\ trace = << >> /\ calls = << >> /\ gateCalls = 0
          /\ pc \in {"error", "done"}
          /\ Answered =>
               /\ res.by = "errorHandler"
               /\ res.status = 500
               /\ res.code = Str("INTERNAL_SERVER_ERROR")
               /\ ~res.success)

\* a request from an origin not in the list was answered 500
C29_Witness ==
  /\ ~CorsAdmitted /\ Answered
  /\ req.path = <<"markets", "tags">>
  /\ res.status = 500
  /\ res.code = Str("INTERNAL_SERVER_ERROR")

\* the provider call of the gate, or of the auth controller, did not succeed
C30_GateFailed == gateOutcome \notin {None, "ok"}
C30_CallFailed == UpstreamFailed /\ lastCall.client = "auth"

\* the answer is 401 AUTHENTICATION_ERROR, or 400 VALIDATION_ERROR
C30_Refusal ==
  \/ res.status = 401 /\ res.code = Str("AUTHENTICATION_ERROR")
  \/ res.status = 400 /\ res.code = Str("VALIDATION_ERROR")

\* C30 as stated: every failure of an auth-provider operation (send OTP, verify
\* OTP, get user from token, sign out) reaches the caller as 401
\* AUTHENTICATION_ERROR, or 400 VALIDATION_ERROR for locally rejected input.
C30_AsStated ==
  (Answered /\ (C30_GateFailed \/ C30_CallFailed)) => C30_Refusal

\* C30: a failed send-OTP, verify-OTP or sign-out call, and a failed token
\* resolution in the required gate, whether the provider returned an error, an
\* incomplete result or the call threw, is answered 401 AUTHENTICATION_ERROR,
\* never 500, 503 or 504; a failed token resolution in the optional gate is
\* not reported at all: the request goes on without identity; and send-OTP with
\* a locally invalid email is answered 400 VALIDATION_ERROR without a provider
\* call.
C30_ProviderFailureIs401 ==
  /\ (Answered /\ C30_CallFailed) =>
       res.status = 401 /\ res.code = Str("AUTHENTICATION_ERROR")
  /\ (Answered /\ C30_GateFailed /\ theRoute.auth = "required") =>
       /\ res.status = 401 /\ res.code = Str("AUTHENTICATION_ERROR")
       /\ ~HandlerRan
  /\ (C30_GateFailed /\ theRoute.auth = "optional") =>
       /\ user = None
       /\ gateNext = 1
       /\ Answered => (HandlerRan \/ ValidatorRan)
  /\ ( /\ Dispatched /\ theRoute.handler = "signInWithOtp"
       /\ req.args.email \in {Absent, NotString, "not-an-email"} ) =>
       /\ calls = << >>
       /\ Answered => res.status = 400 /\ res.code = Str("VALIDATION_ERROR")

\* the verify-OTP call threw and the caller got 401
C30_Witness ==
  /\ Answered /\ calls # << >>
  /\ lastCall = Call("auth", "verifyOtp")
  /\ reply.kind = "throws"
  /\ res.status = 401 /\ res.code = Str("AUTHENTICATION_ERROR")

\* the optional gate's provider call failed and the request was served
C30_WitnessOptional ==
  /\ Answered /\ C30_GateFailed
  /\ theRoute.auth = "optional"
  /\ res.status = 200
====
